---------------------------- MODULE Spec2Model ----------------------------
(***************************************************************************)
(* Model of the emission calculation engine of                             *)
(* src/analytics/carbon_calculator.py (class CarbonCalculator).            *)
(*                                                                         *)
(* Numbers.  The code computes with Python floats.  The model computes     *)
(* with exact rationals <<n, d>> (d > 0, lowest terms), so every product,  *)
(* quotient and sum is the real-number value of the Python expression, and *)
(* round(x, ndigits) is the decimal rounding that Python's round performs.  *)
(* The 6- and 4-decimal roundings of the code are therefore real           *)
(* conversions in the model: a value and its rounding are different        *)
(* rationals whenever the value has more decimals.  When the real value    *)
(* lies exactly half way between two decimals, Python rounds the float,    *)
(* which lies just below, just above or on the half: the variable          *)
(* float_half carries the three outcomes, and every formula is checked     *)
(* under each of them.                                                     *)
(***************************************************************************)
EXTENDS Integers, Sequences, FiniteSets, TLC

VARIABLES
    emission_factors,  \* self.emission_factors, set by __init__
    args,              \* arguments of the first call under study
    ret,               \* its outcome (NotCalled before the call)
    args2,             \* arguments of a second call on the same calculator
    ret2,              \* its outcome
    float_half,        \* where the float of an exact decimal half lies
    shipments,         \* the batch passed to calculate_supply_chain_emissions
    include_scope_3,   \* its flag
    frame,             \* the locals and position of that call
    batch_ret,         \* its outcome
    earlier,           \* an earlier, finished batch call: arguments and outcome
    obs,               \* arguments of a call of calculate_weather_impact
    weather_ret,       \* its outcome
    obs2,              \* arguments of a second call of calculate_weather_impact
    weather_ret2,      \* its outcome
    workers,           \* the batch calls of concurrent workers: arguments, locals, outcome
    etl                \* the ETL run: position, shipment list, what has been ingested

callVars  == <<args, ret, args2, ret2>>
batchVars == <<shipments, include_scope_3, frame, batch_ret>>
weatherVars == <<obs, weather_ret, obs2, weather_ret2>>
vars == <<emission_factors, float_half, args, ret, args2, ret2, shipments, include_scope_3, frame, batch_ret, earlier, obs, weather_ret, obs2, weather_ret2, workers, etl>>

-----------------------------------------------------------------------------
(* Exact rational arithmetic                                               *)

RECURSIVE RGcd(_, _)
RGcd(a, b) == IF b = 0 THEN a ELSE RGcd(b, a % b)

RAbsInt(n) == IF n < 0 THEN -n ELSE n

\* the rational n/d in lowest terms with a positive denominator (d # 0)
Rat(n, d) ==
    LET g == RGcd(RAbsInt(n), RAbsInt(d))
        s == IF d < 0 THEN -1 ELSE 1
    IN  <<s * (n \div g), s * (d \div g)>>

R(n) == <<n, 1>>

RMul(x, y) ==
    LET g1 == RGcd(RAbsInt(x[1]), y[2])
        g2 == RGcd(RAbsInt(y[1]), x[2])
        h1 == IF g1 = 0 THEN 1 ELSE g1
        h2 == IF g2 = 0 THEN 1 ELSE g2
    IN  Rat((x[1] \div h1) * (y[1] \div h2), (x[2] \div h2) * (y[2] \div h1))

RAdd(x, y) ==
    LET g == RGcd(x[2], y[2])
        t == x[1] * (y[2] \div g) + y[1] * (x[2] \div g)
        h == RGcd(RAbsInt(t), g)
    IN  IF t = 0 THEN <<0, 1>>
        ELSE <<t \div h, (x[2] \div g) * (y[2] \div h)>>

RNeg(x) == <<-x[1], x[2]>>
RSub(x, y) == RAdd(x, RNeg(y))
RAbs(x) == <<RAbsInt(x[1]), x[2]>>

\* 1/x for x # 0
RInv(x) == Rat(x[2], x[1])

RLe(x, y) == RSub(x, y)[1] <= 0
RLt(x, y) == RSub(x, y)[1] < 0

RECURSIVE Pow10(_)
Pow10(k) == IF k = 0 THEN 1 ELSE 10 * Pow10(k - 1)

\* Python round(x, ndigits): the nearest multiple of 10^-ndigits; a float on
\* the half goes to the even neighbour, one just below it down, one just
\* above it up.
\* x = q + r/d with q the floor: a value that is already a multiple of
\* 10^-ndigits is returned as it is, otherwise the fraction r/d is rounded.
round_landing(x, ndigits, half) ==
    LET p == Pow10(ndigits)
        q == x[1] \div x[2]
        r == x[1] % x[2]
        s == RMul(<<r, x[2]>>, R(p))
        f == s[1] \div s[2]
        t == s[1] % s[2]
        m == IF 2 * t < s[2] THEN f
             ELSE IF 2 * t > s[2] THEN f + 1
             ELSE IF half = "below" THEN f
             ELSE IF half = "above" THEN f + 1
             ELSE IF f % 2 = 0 THEN f ELSE f + 1
    IN  IF p % x[2] = 0 THEN x ELSE RAdd(R(q), Rat(m, p))

\* the builtin round on the floats of one call of the calculator
round(x, ndigits) == round_landing(x, ndigits, float_half)

-----------------------------------------------------------------------------
(* EmissionFactors: the dataclass defaults                                 *)

air_freight        == Rat(102, 100)
ground_freight     == Rat(89, 1000)
sea_freight        == Rat(14, 1000)
air_freight_ch4    == Rat(1, 10000)
ground_freight_ch4 == Rat(2, 10000)
sea_freight_ch4    == Rat(5, 100000)
air_freight_n2o    == Rat(1, 100000)
ground_freight_n2o == Rat(2, 100000)
sea_freight_n2o    == Rat(5, 1000000)
ch4_gwp            == 25
n2o_gwp            == 298

EmissionFactors ==
    [air_freight        |-> air_freight,
     ground_freight     |-> ground_freight,
     sea_freight        |-> sea_freight,
     air_freight_ch4    |-> air_freight_ch4,
     ground_freight_ch4 |-> ground_freight_ch4,
     sea_freight_ch4    |-> sea_freight_ch4,
     air_freight_n2o    |-> air_freight_n2o,
     ground_freight_n2o |-> ground_freight_n2o,
     sea_freight_n2o    |-> sea_freight_n2o,
     ch4_gwp            |-> R(ch4_gwp),
     n2o_gwp            |-> R(n2o_gwp)]

-----------------------------------------------------------------------------
(* WeatherImpact                                                           *)

\* Python None (an absent optional argument)
None == [is_none |-> TRUE]

WeatherImpact(temperature_factor, wind_factor, precipitation_factor, humidity_factor) ==
    [temperature_factor   |-> temperature_factor,
     wind_factor          |-> wind_factor,
     precipitation_factor |-> precipitation_factor,
     humidity_factor      |-> humidity_factor]

\* WeatherImpact(): every factor at its default 1.0
NeutralWeatherImpact == WeatherImpact(R(1), R(1), R(1), R(1))

calculate_combined_factor(self) ==
    RMul(RMul(RMul(self.temperature_factor, self.wind_factor),
              self.precipitation_factor),
         self.humidity_factor)

-----------------------------------------------------------------------------
(* CarbonCalculator                                                        *)

TransportModes == {"air", "ground", "sea"}

_get_co2_factor(transport_mode) ==
    CASE transport_mode = "air"    -> emission_factors.air_freight
      [] transport_mode = "ground" -> emission_factors.ground_freight
      [] transport_mode = "sea"    -> emission_factors.sea_freight
      [] OTHER                     -> R(0)

_get_ch4_factor(transport_mode) ==
    CASE transport_mode = "air"    -> emission_factors.air_freight_ch4
      [] transport_mode = "ground" -> emission_factors.ground_freight_ch4
      [] transport_mode = "sea"    -> emission_factors.sea_freight_ch4
      [] OTHER                     -> R(0)

\* mutant: the N2O getter reads the CH4 fields
_get_n2o_factor_FromCh4(transport_mode) ==
    CASE transport_mode = "air"    -> emission_factors.air_freight_ch4
      [] transport_mode = "ground" -> emission_factors.ground_freight_ch4
      [] transport_mode = "sea"    -> emission_factors.sea_freight_ch4
      [] OTHER                     -> R(0)

_get_n2o_factor(transport_mode) ==
    CASE transport_mode = "air"    -> emission_factors.air_freight_n2o
      [] transport_mode = "ground" -> emission_factors.ground_freight_n2o
      [] transport_mode = "sea"    -> emission_factors.sea_freight_n2o
      [] OTHER                     -> R(0)

\* outcome of a call: an exception leaving the function, or a returned value;
\* locals holds the local variables that had been assigned at that point
\* mutant: the handler returns a result of zero masses instead of raising
Raised_Swallowed(error, locals) ==
    [status |-> "returned", error |-> "none", locals |-> locals,
     result |-> [co2_kg |-> <<0, 1>>, ch4_kg |-> <<0, 1>>, n2o_kg |-> <<0, 1>>,
                 co2_equivalent_kg |-> <<0, 1>>,
                 weather_factor |-> <<1, 1>>, operational_factor |-> <<1, 1>>]]

Raised(error, locals) ==
    [status |-> "raised", error |-> error, locals |-> locals, result |-> None]
Returned(result, locals) ==
    [status |-> "returned", error |-> "none", locals |-> locals, result |-> result]

NoLocals == [computed |-> {}]

\* mutant: the validation accepts a zero distance and a zero weight
ValidateInputs_ZeroAccepted(distance_km, weight_kg, transport_mode) ==
    IF RLt(distance_km, R(0)) \/ RLt(weight_kg, R(0))
    THEN "ValueError"
    ELSE IF transport_mode \notin TransportModes
         THEN "ValueError"
         ELSE "none"

\* the validation of lines 91-95: the name of the error raised, or "none"
ValidateInputs(distance_km, weight_kg, transport_mode) ==
    IF RLe(distance_km, R(0)) \/ RLe(weight_kg, R(0))
    THEN "ValueError"
    ELSE IF transport_mode \notin TransportModes
         THEN "ValueError"
         ELSE "none"

\* mutant: the weight in tons is rounded to 2 decimals before it is used
BaseEmission_RoundedTons(factor, weight_kg, distance_km) ==
    RMul(RMul(factor, round(RMul(weight_kg, Rat(1, 1000)), 2)), distance_km)

\* lines 103-108: factor * (weight_kg / 1000.0) * distance_km
BaseEmission(factor, weight_kg, distance_km) ==
    RMul(RMul(factor, RMul(weight_kg, Rat(1, 1000))), distance_km)

\* mutant: the fuel efficiency is added instead of multiplied
OperationalFactor_Added(load_factor, fuel_efficiency) ==
    RAdd(RInv(load_factor), fuel_efficiency)

\* line 111, for load_factor # 0
OperationalFactor(load_factor, fuel_efficiency) ==
    RMul(RInv(load_factor), fuel_efficiency)

\* mutant: the factor used when no weather impact is given starts at 0.0
WeatherFactor_ZeroDefault(weather_impact) ==
    IF weather_impact # None
    THEN calculate_combined_factor(weather_impact)
    ELSE R(0)

\* lines 114-116: a WeatherImpact instance is truthy, None is not
WeatherFactor(weather_impact) ==
    IF weather_impact # None
    THEN calculate_combined_factor(weather_impact)
    ELSE R(1)

\* mutant: the masses are computed from the weather factor as reported
\* (4 decimals)
FinalEmission_Reported(base, operational_factor, weather_factor) ==
    RMul(RMul(base, operational_factor), round(weather_factor, 4))

\* lines 119-121
FinalEmission(base, operational_factor, weather_factor) ==
    RMul(RMul(base, operational_factor), weather_factor)

\* mutant: the two warming potentials are exchanged
Co2Equivalent_Swapped(co2_kg, ch4_kg, n2o_kg) ==
    RAdd(RAdd(co2_kg, RMul(ch4_kg, emission_factors.n2o_gwp)),
         RMul(n2o_kg, emission_factors.ch4_gwp))

\* lines 124-128
Co2Equivalent(co2_kg, ch4_kg, n2o_kg) ==
    RAdd(RAdd(co2_kg, RMul(ch4_kg, emission_factors.ch4_gwp)),
         RMul(n2o_kg, emission_factors.n2o_gwp))

\* lines 130-137
EmissionResult(co2_kg, ch4_kg, n2o_kg, co2_equivalent_kg, weather_factor, operational_factor) ==
    [co2_kg             |-> round(co2_kg, 6),
     ch4_kg             |-> round(ch4_kg, 6),
     n2o_kg             |-> round(n2o_kg, 6),
     co2_equivalent_kg  |-> round(co2_equivalent_kg, 6),
     weather_factor     |-> round(weather_factor, 4),
     operational_factor |-> round(operational_factor, 4)]

calculate_transport_emissions(distance_km, weight_kg, transport_mode, weather_impact, load_factor, fuel_efficiency) ==
    LET invalid == ValidateInputs(distance_km, weight_kg, transport_mode)
    IN
    IF invalid # "none"
    THEN Raised(invalid, NoLocals)
    ELSE
    LET base_co2 == BaseEmission(_get_co2_factor(transport_mode), weight_kg, distance_km)
        base_ch4 == BaseEmission(_get_ch4_factor(transport_mode), weight_kg, distance_km)
        base_n2o == BaseEmission(_get_n2o_factor(transport_mode), weight_kg, distance_km)
        bases    == [computed |-> {"base"},
                     base_co2 |-> base_co2, base_ch4 |-> base_ch4, base_n2o |-> base_n2o]
    IN
    IF load_factor = R(0)
    THEN Raised("ZeroDivisionError", bases)
    ELSE
    LET operational_factor == OperationalFactor(load_factor, fuel_efficiency)
        weather_factor     == WeatherFactor(weather_impact)
        co2_kg == FinalEmission(base_co2, operational_factor, weather_factor)
        ch4_kg == FinalEmission(base_ch4, operational_factor, weather_factor)
        n2o_kg == FinalEmission(base_n2o, operational_factor, weather_factor)
        co2_equivalent_kg == Co2Equivalent(co2_kg, ch4_kg, n2o_kg)
    IN  Returned(
            EmissionResult(co2_kg, ch4_kg, n2o_kg, co2_equivalent_kg,
                           weather_factor, operational_factor),
            [computed |-> {"base", "final"},
             base_co2 |-> base_co2, base_ch4 |-> base_ch4, base_n2o |-> base_n2o,
             operational_factor |-> operational_factor,
             weather_factor |-> weather_factor,
             co2_kg |-> co2_kg, ch4_kg |-> ch4_kg, n2o_kg |-> n2o_kg,
             co2_equivalent_kg |-> co2_equivalent_kg])

NotCalled == [status |-> "not_called"]

-----------------------------------------------------------------------------
(* calculate_weather_impact and its four sub-factors                        *)

\* An observation is a number or is missing (None).  A missing observation
\* is no number: every comparison with it raises TypeError.
Absent == <<0, 0>>

\* what the evaluation of one sub-factor gives: a value, or an exception
Value(v)  == [raises |-> FALSE, value |-> v]
TypeError == [raises |-> TRUE, value |-> R(0)]

\* the builtins max and min on two numbers
RMax(x, y) == IF RLt(x, y) THEN y ELSE x
RMin(x, y) == IF RLt(y, x) THEN y ELSE x

\* mutant: an unknown mode gets the multiplier of sea
impact_multiplier_SeaDefault(transport_mode) ==
    CASE transport_mode = "air"    -> Rat(2, 100)
      [] transport_mode = "ground" -> Rat(3, 100)
      [] OTHER                     -> Rat(1, 100)

\* mutant: the multipliers of air and ground exchanged
impact_multiplier_Exchanged(transport_mode) ==
    CASE transport_mode = "air"    -> Rat(3, 100)
      [] transport_mode = "ground" -> Rat(2, 100)
      [] transport_mode = "sea"    -> Rat(1, 100)
      [] OTHER                     -> Rat(2, 100)

\* lines 325-329: the dictionary lookup with its default
impact_multiplier(transport_mode) ==
    CASE transport_mode = "air"    -> Rat(2, 100)
      [] transport_mode = "ground" -> Rat(3, 100)
      [] transport_mode = "sea"    -> Rat(1, 100)
      [] OTHER                     -> Rat(2, 100)

\* mutant: only the lower clamp
ClampFactor_LowerOnly(factor) == RMax(Rat(8, 10), factor)

\* line 333
ClampFactor(factor) == RMax(Rat(8, 10), RMin(Rat(12, 10), factor))

\* mutant: below the optimal range the deviation lowers the factor
_calculate_temperature_factor_Signed(temperature_celsius, transport_mode) ==
    LET optimal_min == R(15)
        optimal_max == R(25)
        factor ==
            IF RLt(temperature_celsius, optimal_min)
            THEN RSub(R(1), RMul(RSub(optimal_min, temperature_celsius),
                                 impact_multiplier(transport_mode)))
            ELSE RAdd(R(1), RMul(RSub(temperature_celsius, optimal_max),
                                 impact_multiplier(transport_mode)))
    IN  IF temperature_celsius = Absent THEN TypeError
        ELSE IF RLe(optimal_min, temperature_celsius) /\ RLe(temperature_celsius, optimal_max)
        THEN Value(R(1))
        ELSE Value(ClampFactor(factor))

\* lines 310-333
_calculate_temperature_factor(temperature_celsius, transport_mode) ==
    LET optimal_min == R(15)
        optimal_max == R(25)
        deviation ==
            IF RLt(temperature_celsius, optimal_min)
            THEN RSub(optimal_min, temperature_celsius)
            ELSE RSub(temperature_celsius, optimal_max)
        factor == RAdd(R(1), RMul(deviation, impact_multiplier(transport_mode)))
    IN  IF temperature_celsius = Absent THEN TypeError
        ELSE IF RLe(optimal_min, temperature_celsius) /\ RLe(temperature_celsius, optimal_max)
        THEN Value(R(1))
        ELSE Value(ClampFactor(factor))

\* mutant: the thresholds are inclusive
_calculate_wind_factor_Inclusive(wind_speed_kmh, wind_direction_degrees, transport_mode) ==
    IF transport_mode = "air"
    THEN IF wind_speed_kmh = Absent THEN TypeError
         ELSE IF RLe(R(50), wind_speed_kmh) THEN Value(Rat(115, 100))
         ELSE IF RLe(R(25), wind_speed_kmh) THEN Value(Rat(108, 100))
         ELSE Value(R(1))
    ELSE IF transport_mode = "ground"
    THEN IF wind_speed_kmh = Absent THEN TypeError
         ELSE IF RLe(R(40), wind_speed_kmh) THEN Value(Rat(105, 100))
         ELSE Value(R(1))
    ELSE Value(R(1))

\* mutant: for air, a wind from the front half counts twice as strong
_calculate_wind_factor_Headwind(wind_speed_kmh, wind_direction_degrees, transport_mode) ==
    IF transport_mode = "air"
    THEN IF wind_speed_kmh = Absent \/ wind_direction_degrees = Absent THEN TypeError
         ELSE LET felt == IF RLt(wind_direction_degrees, R(90))
                          THEN RMul(R(2), wind_speed_kmh) ELSE wind_speed_kmh
              IN  IF RLt(R(50), felt) THEN Value(Rat(115, 100))
                  ELSE IF RLt(R(25), felt) THEN Value(Rat(108, 100))
                  ELSE Value(R(1))
    ELSE IF transport_mode = "ground"
    THEN IF wind_speed_kmh = Absent THEN TypeError
         ELSE IF RLt(R(40), wind_speed_kmh) THEN Value(Rat(105, 100))
         ELSE Value(R(1))
    ELSE Value(R(1))

\* lines 335-353: the direction is a parameter that is never read; the
\* branch of the other modes reads no observation at all
_calculate_wind_factor(wind_speed_kmh, wind_direction_degrees, transport_mode) ==
    IF transport_mode = "air"
    THEN IF wind_speed_kmh = Absent THEN TypeError
         ELSE IF RLt(R(50), wind_speed_kmh) THEN Value(Rat(115, 100))
         ELSE IF RLt(R(25), wind_speed_kmh) THEN Value(Rat(108, 100))
         ELSE Value(R(1))
    ELSE IF transport_mode = "ground"
    THEN IF wind_speed_kmh = Absent THEN TypeError
         ELSE IF RLt(R(40), wind_speed_kmh) THEN Value(Rat(105, 100))
         ELSE Value(R(1))
    ELSE Value(R(1))

\* mutant: the thresholds are inclusive
_calculate_precipitation_factor_Inclusive(precipitation_mm, transport_mode) ==
    IF transport_mode = "ground"
    THEN IF precipitation_mm = Absent THEN TypeError
         ELSE IF RLe(R(10), precipitation_mm) THEN Value(Rat(112, 100))
         ELSE IF RLe(R(5), precipitation_mm) THEN Value(Rat(106, 100))
         ELSE Value(R(1))
    ELSE IF transport_mode = "air"
    THEN IF precipitation_mm = Absent THEN TypeError
         ELSE IF RLe(R(5), precipitation_mm) THEN Value(Rat(105, 100))
         ELSE Value(R(1))
    ELSE Value(R(1))

\* lines 355-373
_calculate_precipitation_factor(precipitation_mm, transport_mode) ==
    IF transport_mode = "ground"
    THEN IF precipitation_mm = Absent THEN TypeError
         ELSE IF RLt(R(10), precipitation_mm) THEN Value(Rat(112, 100))
         ELSE IF RLt(R(5), precipitation_mm) THEN Value(Rat(106, 100))
         ELSE Value(R(1))
    ELSE IF transport_mode = "air"
    THEN IF precipitation_mm = Absent THEN TypeError
         ELSE IF RLt(R(5), precipitation_mm) THEN Value(Rat(105, 100))
         ELSE Value(R(1))
    ELSE Value(R(1))

\* lines 375-383
_calculate_humidity_factor(humidity_percent) ==
    IF humidity_percent = Absent THEN TypeError
    ELSE IF RLt(R(80), humidity_percent) THEN Value(Rat(102, 100))
    ELSE IF RLt(R(60), humidity_percent) THEN Value(Rat(101, 100))
    ELSE Value(R(1))

\* the names bound by calculate_weather_impact when it is left
WeatherLocals(names, caught) == [computed |-> names, caught |-> caught]

\* mutant: the handler keeps the factors computed before the failure
OnWeatherError_KeepComputed(factors, names) ==
    Returned(WeatherImpact(IF factors[1].raises THEN R(1) ELSE factors[1].value,
                           IF factors[2].raises THEN R(1) ELSE factors[2].value,
                           IF factors[3].raises THEN R(1) ELSE factors[3].value,
                           IF factors[4].raises THEN R(1) ELSE factors[4].value),
             WeatherLocals(names, "TypeError"))

\* lines 214-217: the handler logs and returns WeatherImpact()
OnWeatherError(factors, names) ==
    Returned(NeutralWeatherImpact, WeatherLocals(names, "TypeError"))

\* lines 160-217: the four factors are evaluated in this order; the first
\* exception ends the try block
calculate_weather_impact(temperature_celsius, wind_speed_kmh, wind_direction_degrees, precipitation_mm, humidity_percent, transport_mode) ==
    LET temp_factor     == _calculate_temperature_factor(temperature_celsius, transport_mode)
        wind_factor     == _calculate_wind_factor(wind_speed_kmh, wind_direction_degrees, transport_mode)
        precip_factor   == _calculate_precipitation_factor(precipitation_mm, transport_mode)
        humidity_factor == _calculate_humidity_factor(humidity_percent)
        factors == <<temp_factor, wind_factor, precip_factor, humidity_factor>>
    IN  IF temp_factor.raises THEN OnWeatherError(factors, {})
        ELSE IF wind_factor.raises THEN OnWeatherError(factors, {"temp_factor"})
        ELSE IF precip_factor.raises
        THEN OnWeatherError(factors, {"temp_factor", "wind_factor"})
        ELSE IF humidity_factor.raises
        THEN OnWeatherError(factors, {"temp_factor", "wind_factor", "precip_factor"})
        ELSE Returned(WeatherImpact(temp_factor.value, wind_factor.value,
                                    precip_factor.value, humidity_factor.value),
                      WeatherLocals({"temp_factor", "wind_factor", "precip_factor",
                                     "humidity_factor", "weather_impact"}, "none"))

-----------------------------------------------------------------------------
(* calculate_supply_chain_emissions                                        *)

\* dict.get(key, default)
Get(shipment, key, default) ==
    IF key \in DOMAIN shipment THEN shipment[key] ELSE default

RequiredKeys == {"distance_km", "weight_kg", "transport_mode"}

\* mutant: the optional keys of the descriptor are not passed on
ShipmentEmissions_DefaultsOnly(shipment) ==
    IF ~(RequiredKeys \subseteq DOMAIN shipment)
    THEN Raised("KeyError", NoLocals)
    ELSE calculate_transport_emissions(
             shipment["distance_km"], shipment["weight_kg"], shipment["transport_mode"],
             None, Rat(8, 10), R(1))

\* lines 241-248: the per-shipment call made for one descriptor; a missing
\* required key raises KeyError before the call
ShipmentEmissions(shipment) ==
    IF ~(RequiredKeys \subseteq DOMAIN shipment)
    THEN Raised("KeyError", NoLocals)
    ELSE calculate_transport_emissions(
             shipment["distance_km"], shipment["weight_kg"], shipment["transport_mode"],
             Get(shipment, "weather_impact", None),
             Get(shipment, "load_factor", Rat(8, 10)),
             Get(shipment, "fuel_efficiency", R(1)))

\* mutant: one day of warehousing
Scope3OfShipment_OneDay(shipment) ==
    RAdd(RMul(shipment["weight_kg"], Rat(1, 10)), RMul(shipment["weight_kg"], Rat(5, 100)))

\* lines 390-399: packaging plus two days of warehousing for one shipment
Scope3OfShipment(shipment) ==
    RAdd(RMul(shipment["weight_kg"], Rat(1, 10)),
         RMul(RMul(shipment["weight_kg"], Rat(5, 100)), R(2)))

RECURSIVE Scope3Sum(_, _)
Scope3Sum(batch, n) ==
    IF n = 0 THEN R(0)
    ELSE RAdd(Scope3Sum(batch, n - 1), Scope3OfShipment(batch[n]))

\* mutant: one kilogram of scope 3 is charged per call, whatever the batch
_calculate_scope_3_emissions_PerCall(batch) == RAdd(Scope3Sum(batch, Len(batch)), R(1))

_calculate_scope_3_emissions(batch) == Scope3Sum(batch, Len(batch))

\* lines 261-268
SupplyChainResult(total_co2, total_ch4, total_n2o, total_co2e, scope_3_emissions, count) ==
    [total_co2_kg            |-> round(total_co2, 6),
     total_ch4_kg            |-> round(total_ch4, 6),
     total_n2o_kg            |-> round(total_n2o, 6),
     total_co2_equivalent_kg |-> round(total_co2e, 6),
     scope_3_emissions_kg    |-> round(scope_3_emissions, 6),
     shipment_count          |-> count]

\* lines 261-268 for a call whose sums are other floats than those of the
\* call under float_half: half says where they land on an exact decimal half
SupplyChainResultOf(half, total_co2, total_ch4, total_n2o, total_co2e, scope_3_emissions, count) ==
    [total_co2_kg            |-> round_landing(total_co2, 6, half),
     total_ch4_kg            |-> round_landing(total_ch4, 6, half),
     total_n2o_kg            |-> round_landing(total_n2o, 6, half),
     total_co2_equivalent_kg |-> round_landing(total_co2e, 6, half),
     scope_3_emissions_kg    |-> round_landing(scope_3_emissions, 6, half),
     shipment_count          |-> count]

\* the frame before the call: nothing assigned
IdleFrame == [pc |-> "idle"]

\* no concurrent worker has been started
NoWorkers == <<>>

\* run_etl_pipeline has not been called
EtlIdle == [pc |-> "idle"]

\* lines 235-238
SupplyChainBegin ==
    /\ frame.pc = "idle"
    /\ batch_ret = NotCalled
    /\ frame' = [pc |-> "loop", i |-> 1,
                 total_co2 |-> R(0), total_ch4 |-> R(0),
                 total_n2o |-> R(0), total_co2e |-> R(0),
                 scope_3_emissions |-> None]
    /\ UNCHANGED <<emission_factors, float_half, workers, etl, earlier, weatherVars, callVars, shipments, include_scope_3, batch_ret>>

\* mutant: a shipment whose calculation raises is skipped
SupplyChainLoop_Skip ==
    /\ frame.pc = "loop"
    /\ frame.i <= Len(shipments)
    /\ LET emissions == ShipmentEmissions(shipments[frame.i])
       IN  IF emissions.status = "raised"
           THEN frame' = [frame EXCEPT !.i = @ + 1]
           ELSE frame' = [frame EXCEPT
                       !.i = @ + 1,
                       !.total_co2  = RAdd(@, emissions.result.co2_kg),
                       !.total_ch4  = RAdd(@, emissions.result.ch4_kg),
                       !.total_n2o  = RAdd(@, emissions.result.n2o_kg),
                       !.total_co2e = RAdd(@, emissions.result.co2_equivalent_kg)]
    /\ UNCHANGED <<emission_factors, float_half, workers, etl, earlier, weatherVars, callVars, shipments, include_scope_3, batch_ret>>

\* mutant: the defaults of the optional keys are stored in the descriptor
SupplyChainLoop_StoreDefaults ==
    /\ frame.pc = "loop"
    /\ frame.i <= Len(shipments)
    /\ LET emissions == ShipmentEmissions(shipments[frame.i])
       IN  IF emissions.status = "raised"
           THEN /\ frame' = [frame EXCEPT !.pc = "raised"]
                /\ batch_ret' = Raised(emissions.error, NoLocals)
                /\ UNCHANGED shipments
           ELSE /\ frame' = [frame EXCEPT
                       !.i = @ + 1,
                       !.total_co2  = RAdd(@, emissions.result.co2_kg),
                       !.total_ch4  = RAdd(@, emissions.result.ch4_kg),
                       !.total_n2o  = RAdd(@, emissions.result.n2o_kg),
                       !.total_co2e = RAdd(@, emissions.result.co2_equivalent_kg)]
                /\ shipments' = [shipments EXCEPT ![frame.i] =
                       [k \in DOMAIN @ \cup {"load_factor"} |->
                           IF k \in DOMAIN @ THEN @[k] ELSE Rat(8, 10)]]
                /\ UNCHANGED batch_ret
    /\ UNCHANGED <<emission_factors, float_half, workers, etl, earlier, weatherVars, callVars, include_scope_3>>

\* lines 240-253: one iteration; an exception leaves the loop and, through
\* the handler of lines 279-281, the function
SupplyChainLoop ==
    /\ frame.pc = "loop"
    /\ frame.i <= Len(shipments)
    /\ LET emissions == ShipmentEmissions(shipments[frame.i])
       IN  IF emissions.status = "raised"
           THEN /\ frame' = [frame EXCEPT !.pc = "raised"]
                /\ batch_ret' = Raised(emissions.error, NoLocals)
           ELSE /\ frame' = [frame EXCEPT
                       !.i = @ + 1,
                       !.total_co2  = RAdd(@, emissions.result.co2_kg),
                       !.total_ch4  = RAdd(@, emissions.result.ch4_kg),
                       !.total_n2o  = RAdd(@, emissions.result.n2o_kg),
                       !.total_co2e = RAdd(@, emissions.result.co2_equivalent_kg)]
                /\ UNCHANGED batch_ret
    /\ UNCHANGED <<emission_factors, float_half, workers, etl, earlier, weatherVars, callVars, shipments, include_scope_3>>

\* mutant: the scope-3 estimate is also added to the CO2 total
SupplyChainFinish_Scope3InCo2 ==
    /\ frame.pc = "loop"
    /\ frame.i > Len(shipments)
    /\ LET scope_3_emissions ==
               IF include_scope_3 THEN _calculate_scope_3_emissions(shipments) ELSE R(0)
           total_co2e ==
               IF include_scope_3 THEN RAdd(frame.total_co2e, scope_3_emissions)
               ELSE frame.total_co2e
       IN  /\ frame' = [frame EXCEPT !.pc = "returned",
                                     !.scope_3_emissions = scope_3_emissions,
                                     !.total_co2e = total_co2e]
           /\ batch_ret' = Returned(
                  SupplyChainResult(RAdd(frame.total_co2, scope_3_emissions),
                                    frame.total_ch4, frame.total_n2o,
                                    total_co2e, scope_3_emissions, Len(shipments)),
                  NoLocals)
    /\ UNCHANGED <<emission_factors, float_half, workers, etl, earlier, weatherVars, callVars, shipments, include_scope_3>>

\* mutant: the loop index is reported as the number of shipments
SupplyChainFinish_CountIsIndex ==
    /\ frame.pc = "loop"
    /\ frame.i > Len(shipments)
    /\ LET scope_3_emissions ==
               IF include_scope_3 THEN _calculate_scope_3_emissions(shipments) ELSE R(0)
           total_co2e ==
               IF include_scope_3 THEN RAdd(frame.total_co2e, scope_3_emissions)
               ELSE frame.total_co2e
       IN  /\ frame' = [frame EXCEPT !.pc = "returned",
                                     !.scope_3_emissions = scope_3_emissions,
                                     !.total_co2e = total_co2e]
           /\ batch_ret' = Returned(
                  SupplyChainResult(frame.total_co2, frame.total_ch4, frame.total_n2o,
                                    total_co2e, scope_3_emissions, frame.i),
                  NoLocals)
    /\ UNCHANGED <<emission_factors, float_half, workers, etl, earlier, weatherVars, callVars, shipments, include_scope_3>>

\* lines 255-277: after the last shipment
SupplyChainFinish ==
    /\ frame.pc = "loop"
    /\ frame.i > Len(shipments)
    /\ LET scope_3_emissions ==
               IF include_scope_3 THEN _calculate_scope_3_emissions(shipments) ELSE R(0)
           total_co2e ==
               IF include_scope_3 THEN RAdd(frame.total_co2e, scope_3_emissions)
               ELSE frame.total_co2e
       IN  /\ frame' = [frame EXCEPT !.pc = "returned",
                                     !.scope_3_emissions = scope_3_emissions,
                                     !.total_co2e = total_co2e]
           /\ batch_ret' = Returned(
                  SupplyChainResult(frame.total_co2, frame.total_ch4, frame.total_n2o,
                                    total_co2e, scope_3_emissions, Len(shipments)),
                  NoLocals)
    /\ UNCHANGED <<emission_factors, float_half, workers, etl, earlier, weatherVars, callVars, shipments, include_scope_3>>

-----------------------------------------------------------------------------
(* calculate_supply_chain_emissions called by several workers on one       *)
(* calculator: each call has its own arguments and locals, all read        *)
(* emission_factors                                                        *)

\* a call that a worker is about to make
Worker(batch, flag, half) ==
    [shipments |-> batch, include_scope_3 |-> flag, half |-> half,
     frame |-> IdleFrame, ret |-> NotCalled]

\* lines 235-238
WorkerBegin(w) ==
    /\ workers[w].frame.pc = "idle"
    /\ workers' = [workers EXCEPT ![w].frame =
                      [pc |-> "loop", i |-> 1,
                       total_co2 |-> R(0), total_ch4 |-> R(0),
                       total_n2o |-> R(0), total_co2e |-> R(0),
                       scope_3_emissions |-> None]]
    /\ UNCHANGED <<emission_factors, float_half, etl, earlier, weatherVars, callVars, batchVars>>

\* the totals of one frame after the emissions of a shipment are added
\* mutant: the totals are assigned, not added to
AddEmissions_Overwrite(fr, emissions) ==
    [fr EXCEPT !.total_co2  = emissions.result.co2_kg,
               !.total_ch4  = emissions.result.ch4_kg,
               !.total_n2o  = emissions.result.n2o_kg,
               !.total_co2e = emissions.result.co2_equivalent_kg]

AddEmissions(fr, emissions) ==
    [fr EXCEPT !.total_co2  = RAdd(@, emissions.result.co2_kg),
               !.total_ch4  = RAdd(@, emissions.result.ch4_kg),
               !.total_n2o  = RAdd(@, emissions.result.n2o_kg),
               !.total_co2e = RAdd(@, emissions.result.co2_equivalent_kg)]

\* mutant: the running totals are kept on the calculator, one set for all
\* the calls in their loop
WorkerLoop_SharedTotals(w) ==
    /\ workers[w].frame.pc = "loop"
    /\ workers[w].frame.i <= Len(workers[w].shipments)
    /\ LET emissions == ShipmentEmissions(workers[w].shipments[workers[w].frame.i])
       IN  IF emissions.status = "raised"
           THEN workers' = [workers EXCEPT ![w].frame.pc = "raised",
                                           ![w].ret = Raised(emissions.error, NoLocals)]
           ELSE workers' =
                    [v \in DOMAIN workers |->
                        IF v = w
                        THEN [workers[v] EXCEPT
                                 !.frame = [AddEmissions(@, emissions) EXCEPT !.i = @ + 1]]
                        ELSE IF workers[v].frame.pc = "loop"
                        THEN [workers[v] EXCEPT !.frame = AddEmissions(@, emissions)]
                        ELSE workers[v]]
    /\ UNCHANGED <<emission_factors, float_half, etl, earlier, weatherVars, callVars, batchVars>>

\* lines 240-253 and 279-281
WorkerLoop(w) ==
    /\ workers[w].frame.pc = "loop"
    /\ workers[w].frame.i <= Len(workers[w].shipments)
    /\ LET emissions == ShipmentEmissions(workers[w].shipments[workers[w].frame.i])
       IN  IF emissions.status = "raised"
           THEN workers' = [workers EXCEPT ![w].frame.pc = "raised",
                                           ![w].ret = Raised(emissions.error, NoLocals)]
           ELSE workers' = [workers EXCEPT
                               ![w].frame = [AddEmissions(@, emissions) EXCEPT !.i = @ + 1]]
    /\ UNCHANGED <<emission_factors, float_half, etl, earlier, weatherVars, callVars, batchVars>>

\* lines 255-277
WorkerFinish(w) ==
    /\ workers[w].frame.pc = "loop"
    /\ workers[w].frame.i > Len(workers[w].shipments)
    /\ LET me == workers[w]
           scope_3_emissions ==
               IF me.include_scope_3 THEN _calculate_scope_3_emissions(me.shipments) ELSE R(0)
           total_co2e ==
               IF me.include_scope_3 THEN RAdd(me.frame.total_co2e, scope_3_emissions)
               ELSE me.frame.total_co2e
       IN  workers' = [workers EXCEPT
               ![w].frame = [@ EXCEPT !.pc = "returned",
                                      !.scope_3_emissions = scope_3_emissions,
                                      !.total_co2e = total_co2e],
               ![w].ret = Returned(
                   SupplyChainResultOf(me.half, me.frame.total_co2, me.frame.total_ch4,
                                       me.frame.total_n2o, total_co2e, scope_3_emissions,
                                       Len(me.shipments)),
                   NoLocals)]
    /\ UNCHANGED <<emission_factors, float_half, etl, earlier, weatherVars, callVars, batchVars>>

-----------------------------------------------------------------------------
(* Callers of the per-shipment calculation                                 *)

\* the arguments of one call of calculate_weather_impact
Observation(temperature_celsius, wind_speed_kmh, wind_direction_degrees, precipitation_mm, humidity_percent, transport_mode) ==
    [temperature_celsius    |-> temperature_celsius,
     wind_speed_kmh         |-> wind_speed_kmh,
     wind_direction_degrees |-> wind_direction_degrees,
     precipitation_mm       |-> precipitation_mm,
     humidity_percent       |-> humidity_percent,
     transport_mode         |-> transport_mode]

\* 20 degrees, no wind, no rain, 50 percent humidity
StillObservation == Observation(R(20), R(0), R(0), R(0), R(50), "ground")

\* the keyword arguments of one call
Args(distance_km, weight_kg, transport_mode, weather_impact, load_factor, fuel_efficiency) ==
    [distance_km     |-> distance_km,
     weight_kg       |-> weight_kg,
     transport_mode  |-> transport_mode,
     weather_impact  |-> weather_impact,
     load_factor     |-> load_factor,
     fuel_efficiency |-> fuel_efficiency]

Call(a) ==
    calculate_transport_emissions(a.distance_km, a.weight_kg, a.transport_mode,
                                  a.weather_impact, a.load_factor, a.fuel_efficiency)

\* a WeatherImpact with the temperature factor at its upper clamp
HotWeatherImpact == WeatherImpact(Rat(12, 10), R(1), R(1), R(1))
\* a WeatherImpact whose combined factor 1.015625 has more than 4 decimals
WarmWeatherImpact == WeatherImpact(Rat(65, 64), R(1), R(1), R(1))

\* small and invalid shipments, every mode, every operational parameter
GridInputs ==
    { Args(d, w, m, wi, lf, fe) :
        d  \in {R(0), R(1), R(2), R(100)},
        w  \in {R(0 - 5), R(1), R(3), R(1000)},
        m  \in {"air", "ground", "sea", "train"},
        wi \in {None, NeutralWeatherImpact, HotWeatherImpact},
        lf \in {Rat(8, 10), Rat(4, 10), Rat(3, 10), R(0), Rat(0 - 8, 10)},
        fe \in {R(1), Rat(3, 2)} }

\* the one-ton, 1000 km shipment of the documentation
ScenarioInputs ==
    { Args(R(1000), R(1000), m, wi, lf, R(1)) :
        m  \in {"ground"},
        wi \in {None, NeutralWeatherImpact},
        lf \in {Rat(8, 10), Rat(4, 10)} }

\* shipments under a weather factor that the 4-decimal report changes
WarmInputs ==
    { Args(R(100), R(1000), m, WarmWeatherImpact, Rat(8, 10), R(1)) :
        m \in {"air", "ground", "sea"} }

Inputs == GridInputs \cup ScenarioInputs \cup WarmInputs

\* the second call differs from the first in one argument
Related(a) ==
    { [a EXCEPT !.load_factor = RMul(@, Rat(1, 2))],
      [a EXCEPT !.distance_km = RMul(@, R(2))],
      [a EXCEPT !.weight_kg = RMul(@, R(2))],
      [a EXCEPT !.weather_impact = IF @ = None THEN NeutralWeatherImpact ELSE None] }

Init ==
    /\ emission_factors = EmissionFactors
    /\ args \in Inputs
    /\ args2 \in Related(args)
    /\ ret = NotCalled
    /\ ret2 = NotCalled
    /\ float_half \in {"on", "below", "above"}
    /\ shipments = <<>>
    /\ include_scope_3 = TRUE
    /\ frame = IdleFrame
    /\ batch_ret = NotCalled
    /\ earlier = NotCalled
    /\ obs = StillObservation
    /\ obs2 = StillObservation
    /\ weather_ret = NotCalled
    /\ weather_ret2 = NotCalled
    /\ workers = NoWorkers
    /\ etl = EtlIdle

CalculateFirst ==
    /\ ret = NotCalled
    /\ ret' = Call(args)
    /\ UNCHANGED <<emission_factors, float_half, workers, etl, earlier, weatherVars, args, args2, ret2, batchVars>>

CalculateSecond ==
    /\ ret2 = NotCalled
    /\ ret2' = Call(args2)
    /\ UNCHANGED <<emission_factors, float_half, workers, etl, earlier, weatherVars, args, args2, ret, batchVars>>

Next == CalculateFirst \/ CalculateSecond

Spec == Init /\ [][Next]_vars

-----------------------------------------------------------------------------
(* Callers of the batch calculation                                        *)

MaxBatch == 2

\* shipment descriptors: dictionaries with and without the optional keys,
\* valid and invalid
Shipment(distance_km, weight_kg, transport_mode) ==
    [distance_km |-> distance_km, weight_kg |-> weight_kg, transport_mode |-> transport_mode]

ScenarioShipment == Shipment(R(1000), R(1000), "ground")
TinyShipment     == Shipment(R(1), R(1), "ground")
FullShipment ==
    [distance_km |-> R(100), weight_kg |-> R(1000), transport_mode |-> "air",
     weather_impact |-> HotWeatherImpact, load_factor |-> Rat(4, 10),
     fuel_efficiency |-> Rat(3, 2)]
ThinShipment ==
    [distance_km |-> R(2), weight_kg |-> R(3), transport_mode |-> "ground",
     load_factor |-> Rat(3, 10)]
ZeroDistanceShipment == Shipment(R(0), R(1000), "sea")
TrainShipment        == Shipment(R(100), R(1000), "train")
NoWeightShipment     == [distance_km |-> R(100), transport_mode |-> "sea"]
ZeroLoadShipment ==
    [distance_km |-> R(1), weight_kg |-> R(3), transport_mode |-> "sea",
     load_factor |-> R(0)]

Shipments ==
    {ScenarioShipment, TinyShipment, FullShipment, ThinShipment,
     ZeroDistanceShipment, TrainShipment, NoWeightShipment, ZeroLoadShipment}

Batches == UNION { [1..n -> Shipments] : n \in 0..MaxBatch }

InitBatch ==
    /\ emission_factors = EmissionFactors
    /\ float_half \in {"on", "below", "above"}
    /\ args = Args(R(1000), R(1000), "ground", None, Rat(8, 10), R(1))
    /\ args2 = args
    /\ ret = NotCalled
    /\ ret2 = NotCalled
    /\ shipments \in Batches
    /\ include_scope_3 \in BOOLEAN
    /\ frame = IdleFrame
    /\ batch_ret = NotCalled
    /\ earlier = NotCalled
    /\ obs = StillObservation
    /\ obs2 = StillObservation
    /\ weather_ret = NotCalled
    /\ weather_ret2 = NotCalled
    /\ workers = NoWorkers
    /\ etl = EtlIdle

NextBatch == SupplyChainBegin \/ SupplyChainLoop \/ SupplyChainFinish

SpecBatch == InitBatch /\ [][NextBatch]_vars

-----------------------------------------------------------------------------
(* A caller that runs the batch twice, with and without scope 3             *)

\* a parcel of 125/256 kg = 0.48828125 kg: a fifth of its weight,
\* 0.09765625, has more than six decimals
FineShipment == Shipment(R(1000), Rat(125, 256), "ground")

\* ten kilograms by air under every optional parameter
AirParcel ==
    [distance_km |-> R(100), weight_kg |-> R(10), transport_mode |-> "air",
     weather_impact |-> HotWeatherImpact, load_factor |-> Rat(4, 10),
     fuel_efficiency |-> Rat(3, 2)]

Scope3Shipments == {TinyShipment, ThinShipment, FineShipment, AirParcel, ZeroLoadShipment}

Scope3Batches == UNION { [1..n -> Scope3Shipments] : n \in 0..MaxBatch }

InitScope3 ==
    /\ emission_factors = EmissionFactors
    /\ float_half \in {"on", "below", "above"}
    /\ args = Args(R(1000), R(1000), "ground", None, Rat(8, 10), R(1))
    /\ args2 = args
    /\ ret = NotCalled
    /\ ret2 = NotCalled
    /\ shipments \in Scope3Batches
    /\ include_scope_3 \in BOOLEAN
    /\ frame = IdleFrame
    /\ batch_ret = NotCalled
    /\ earlier = NotCalled
    /\ obs = StillObservation
    /\ obs2 = StillObservation
    /\ weather_ret = NotCalled
    /\ weather_ret2 = NotCalled
    /\ workers = NoWorkers
    /\ etl = EtlIdle

\* the finished call is kept and the same batch is passed again with the
\* other value of the flag
CallAgainOtherFlag ==
    /\ earlier = NotCalled
    /\ frame.pc \in {"returned", "raised"}
    /\ earlier' = [shipments |-> shipments, include_scope_3 |-> include_scope_3,
                   ret |-> batch_ret]
    /\ include_scope_3' = ~include_scope_3
    /\ frame' = IdleFrame
    /\ batch_ret' = NotCalled
    /\ UNCHANGED <<emission_factors, float_half, workers, etl, weatherVars, callVars, shipments>>

NextScope3 == SupplyChainBegin \/ SupplyChainLoop \/ SupplyChainFinish \/ CallAgainOtherFlag

SpecScope3 == InitScope3 /\ [][NextScope3]_vars

-----------------------------------------------------------------------------
(* Callers of the weather model                                            *)

CallWeather(o) ==
    calculate_weather_impact(o.temperature_celsius, o.wind_speed_kmh, o.wind_direction_degrees,
                             o.precipitation_mm, o.humidity_percent, o.transport_mode)

\* observations on, just beyond and far from every threshold of the four
\* sub-factors, each of them also missing; one mode that is none of the three
Observations ==
    { Observation(t, ws, R(0), p, h, m) :
        t  \in {Absent, R(0 - 10), R(5), R(14), R(15), R(20), R(25), R(26), R(35)},
        ws \in {Absent, R(25), R(26), R(40), R(41), R(50), R(51)},
        p  \in {Absent, R(5), Rat(501, 100), R(10), Rat(1001, 100)},
        h  \in {Absent, R(60), R(61), R(80), R(81)},
        m  \in {"air", "ground", "sea", "train"} }

\* the second call differs from the first in the wind direction or has the
\* mode sea
RelatedObservations(o) ==
    { [o EXCEPT !.wind_direction_degrees = R(180)],
      [o EXCEPT !.wind_direction_degrees = Absent],
      [o EXCEPT !.transport_mode = "sea"] }

\* calculate_weather_impact rounds nothing: float_half plays no part
InitWeather ==
    /\ emission_factors = EmissionFactors
    /\ float_half = "on"
    /\ args = Args(R(1000), R(1000), "ground", None, Rat(8, 10), R(1))
    /\ args2 = args
    /\ ret = NotCalled
    /\ ret2 = NotCalled
    /\ shipments = <<>>
    /\ include_scope_3 = TRUE
    /\ frame = IdleFrame
    /\ batch_ret = NotCalled
    /\ earlier = NotCalled
    /\ obs \in Observations
    /\ obs2 \in RelatedObservations(obs)
    /\ weather_ret = NotCalled
    /\ weather_ret2 = NotCalled
    /\ workers = NoWorkers
    /\ etl = EtlIdle

WeatherFirst ==
    /\ weather_ret = NotCalled
    /\ weather_ret' = CallWeather(obs)
    /\ UNCHANGED <<emission_factors, float_half, workers, etl, earlier, callVars, batchVars, obs, obs2, weather_ret2>>

WeatherSecond ==
    /\ weather_ret2 = NotCalled
    /\ weather_ret2' = CallWeather(obs2)
    /\ UNCHANGED <<emission_factors, float_half, workers, etl, earlier, callVars, batchVars, obs, obs2, weather_ret>>

NextWeather == WeatherFirst \/ WeatherSecond

SpecWeather == InitWeather /\ [][NextWeather]_vars

-----------------------------------------------------------------------------
(* A caller that passes the weather impact on to the emission calculation  *)

ChainObservations ==
    { Observation(t, ws, R(0), p, h, m) :
        t  \in {Absent, R(20), R(35)},
        ws \in {Absent, R(30), R(51)},
        p  \in {Absent, R(6), R(11)},
        h  \in {Absent, R(50)},
        m  \in {"air", "ground", "sea", "train"} }

\* 100 km and one ton by each mode, no weather impact
ChainInputs ==
    { Args(R(100), R(1000), m, None, Rat(8, 10), R(1)) : m \in {"air", "ground", "sea"} }

InitChain ==
    /\ emission_factors = EmissionFactors
    /\ float_half \in {"on", "below", "above"}
    /\ args \in ChainInputs
    /\ args2 = args
    /\ ret = NotCalled
    /\ ret2 = NotCalled
    /\ shipments = <<>>
    /\ include_scope_3 = TRUE
    /\ frame = IdleFrame
    /\ batch_ret = NotCalled
    /\ earlier = NotCalled
    /\ obs \in ChainObservations
    /\ obs2 = obs
    /\ weather_ret = NotCalled
    /\ weather_ret2 = NotCalled
    /\ workers = NoWorkers
    /\ etl = EtlIdle

\* the first call is made with the WeatherImpact that calculate_weather_impact
\* returned
CalculateWithWeather ==
    /\ weather_ret # NotCalled
    /\ weather_ret.status = "returned"
    /\ ret = NotCalled
    /\ LET a == [args EXCEPT !.weather_impact = weather_ret.result]
       IN  /\ args' = a
           /\ ret' = Call(a)
    /\ UNCHANGED <<emission_factors, float_half, workers, etl, earlier, weatherVars, args2, ret2, batchVars>>

NextChain == WeatherFirst \/ CalculateWithWeather \/ CalculateSecond

SpecChain == InitChain /\ [][NextChain]_vars

-----------------------------------------------------------------------------
(* A caller that uses the three operations of one calculator               *)

\* a valid call under a weather impact, an invalid one, one that divides by 0
SessionInputs ==
    { Args(R(100), R(1000), "air", HotWeatherImpact, Rat(8, 10), R(1)),
      Args(R(100), R(1000), "train", NeutralWeatherImpact, Rat(8, 10), R(1)),
      Args(R(100), R(1000), "sea", None, R(0), R(1)) }

\* complete observations, a missing humidity, an unknown mode
SessionObservations ==
    { Observation(R(35), R(51), R(0), R(11), R(81), "ground"),
      Observation(R(35), R(51), R(0), R(11), Absent, "air"),
      Observation(R(5), R(51), R(0), R(11), R(61), "train") }

InitSession ==
    /\ emission_factors = EmissionFactors
    /\ float_half \in {"on", "below", "above"}
    /\ args \in SessionInputs
    /\ args2 = args
    /\ ret = NotCalled
    /\ ret2 = NotCalled
    /\ shipments \in Scope3Batches
    /\ include_scope_3 \in BOOLEAN
    /\ frame = IdleFrame
    /\ batch_ret = NotCalled
    /\ earlier = NotCalled
    /\ obs \in SessionObservations
    /\ obs2 = obs
    /\ weather_ret = NotCalled
    /\ weather_ret2 = NotCalled
    /\ workers = NoWorkers
    /\ etl = EtlIdle

NextSession ==
    \/ CalculateFirst
    \/ WeatherFirst
    \/ SupplyChainBegin
    \/ SupplyChainLoop
    \/ SupplyChainFinish

SpecSession == InitSession /\ [][NextSession]_vars

-----------------------------------------------------------------------------
(* Two workers and a direct caller on one calculator, steps interleaved     *)

WorkerShipments == {TinyShipment, AirParcel, ZeroLoadShipment}

WorkerBatches == UNION { [1..n -> WorkerShipments] : n \in 0..MaxBatch }

\* what the second worker runs meanwhile: a batch that fails at once, one that
\* returns, one that fails after a shipment
OtherBatches == {<<ZeroLoadShipment>>, <<AirParcel>>, <<TinyShipment, ZeroLoadShipment>>}

InitWorkers ==
    /\ emission_factors = EmissionFactors
    /\ float_half \in {"on", "below", "above"}
    /\ args \in SessionInputs
    /\ args2 = args
    /\ ret = NotCalled
    /\ ret2 = NotCalled
    /\ shipments = <<>>
    /\ include_scope_3 = TRUE
    /\ frame = IdleFrame
    /\ batch_ret = NotCalled
    /\ earlier = NotCalled
    /\ obs = StillObservation
    /\ obs2 = StillObservation
    /\ weather_ret = NotCalled
    /\ weather_ret2 = NotCalled
    /\ \E b1 \in WorkerBatches, b2 \in OtherBatches, flag \in BOOLEAN :
           workers = <<Worker(b1, flag, float_half), Worker(b2, ~flag, float_half)>>
    /\ etl = EtlIdle

NextWorkers ==
    \/ \E w \in DOMAIN workers : WorkerBegin(w)
    \/ \E w \in DOMAIN workers : WorkerLoop(w)
    \/ \E w \in DOMAIN workers : WorkerFinish(w)
    \/ CalculateFirst

SpecWorkers == InitWorkers /\ [][NextWorkers]_vars

-----------------------------------------------------------------------------
(* The ETL pipeline: src/etl/main.py, src/etl/transformations.py,          *)
(* src/etl/data_quality.py, src/etl/ingestion.py, and the batch loop of    *)
(* src/generate_massive_data.py                                            *)

\* dict.update: the keys of other are added or overwritten
DictUpdate(dict, other) ==
    [k \in DOMAIN dict \cup DOMAIN other |-> IF k \in DOMAIN other THEN other[k] ELSE dict[k]]

\* a dictionary without one of its keys
Without(dict, key) == [k \in DOMAIN dict \ {key} |-> dict[k]]

\* shipment_generator.py lines 107-123: the keys of a generated shipment
\* that the pipeline reads; times are days, a missing coordinate is Absent
GeneratedShipment(shipment_id, distance_km, weight_kg, transport_mode) ==
    [shipment_id     |-> shipment_id,
     origin_lat      |-> R(40),
     origin_lng      |-> R(0 - 74),
     destination_lat |-> R(51),
     destination_lng |-> R(0),
     transport_mode  |-> transport_mode,
     weight_kg       |-> weight_kg,
     distance_km     |-> distance_km,
     departure_time  |-> 1,
     arrival_time    |-> 2,
     created_at      |-> 3]

\* what generate_shipments is taken to return: any list of shipment
\* dictionaries. A parcel; the same with the optional keys of a descriptor;
\* one with a load factor of zero; one that arrives before it leaves and
\* has no origin; one without weight; one by train; one without a weight
\* key and one without a mode key.
EtlShipments ==
    {GeneratedShipment("parcel", R(100), R(10), "air"),
     DictUpdate(GeneratedShipment("loaded", R(100), R(10), "air"),
                [weather_impact |-> HotWeatherImpact, load_factor |-> Rat(4, 10),
                 fuel_efficiency |-> Rat(3, 2)]),
     DictUpdate(GeneratedShipment("zeroload", R(1), R(3), "sea"), [load_factor |-> R(0)]),
     DictUpdate(GeneratedShipment("late", R(1), R(1), "ground"),
                [origin_lat |-> Absent, departure_time |-> 4]),
     GeneratedShipment("weightless", R(100), R(0), "ground"),
     GeneratedShipment("train", R(100), R(1000), "train"),
     Without(GeneratedShipment("unweighed", R(100), R(10), "sea"), "weight_kg"),
     Without(GeneratedShipment("modeless", R(100), R(10), "sea"), "transport_mode")}

EtlBatches == UNION { [1..n -> EtlShipments] : n \in 0..MaxBatch }

\* the number of batches that generate_massive_data runs
MaxEtlBatches == 2

\* a list that a call has returned, as opposed to None
ListOf(list) == [is_none |-> FALSE, list |-> list]

\* the six keys of the dictionary that calculate_transport_emissions returns
EmissionKeys ==
    {"co2_kg", "ch4_kg", "n2o_kg", "co2_equivalent_kg", "weather_factor", "operational_factor"}

\* generate_massive_data has not started its loop
EtlStart ==
    [pc |-> "idle", batch |-> 0, shipments |-> <<>>, i |-> 0, enriched |-> <<>>,
     returned |-> None, issues |-> <<>>, anomalies |-> <<>>, ingest_calls |-> <<>>,
     error |-> "none", stage |-> "none", history |-> <<>>]

\* data_quality.py lines 31-40: the keys that validate_shipments subscripts
\* for every shipment
ValidatedKeys ==
    {"origin_lat", "origin_lng", "destination_lat", "destination_lng", "weight_kg",
     "distance_km", "departure_time", "arrival_time", "created_at", "shipment_id"}

Issue(shipment, issue) == [shipment_id |-> shipment["shipment_id"], issue |-> issue]

\* data_quality.py lines 30-40: the issues of one shipment, in order
IssuesOfShipment(shipment) ==
    (IF shipment["origin_lat"] = Absent \/ shipment["origin_lng"] = Absent
     THEN <<Issue(shipment, "Missing origin coordinates")>> ELSE <<>>)
    \o (IF shipment["destination_lat"] = Absent \/ shipment["destination_lng"] = Absent
        THEN <<Issue(shipment, "Missing destination coordinates")>> ELSE <<>>)
    \o (IF RLe(shipment["weight_kg"], R(0))
        THEN <<Issue(shipment, "Non-positive weight")>> ELSE <<>>)
    \o (IF RLe(shipment["distance_km"], R(0))
        THEN <<Issue(shipment, "Non-positive distance")>> ELSE <<>>)
    \o (IF shipment["departure_time"] > shipment["arrival_time"]
        THEN <<Issue(shipment, "Departure after arrival")>> ELSE <<>>)
    \o (IF shipment["departure_time"] > shipment["created_at"]
        THEN <<Issue(shipment, "Departure in the future")>> ELSE <<>>)

RECURSIVE IssuesOf(_, _)
IssuesOf(batch, n) ==
    IF n = 0 THEN <<>> ELSE IssuesOf(batch, n - 1) \o IssuesOfShipment(batch[n])

\* data_quality.py lines 18-41: the issues are returned, the list is not
\* touched; a shipment without one of the keys raises KeyError
validate_shipments(batch) ==
    IF \E n \in DOMAIN batch : ~(ValidatedKeys \subseteq DOMAIN batch[n])
    THEN Raised("KeyError", NoLocals)
    ELSE Returned(IssuesOf(batch, Len(batch)), NoLocals)

\* mutant: the optional keys of the record are passed to the calculator
EtlEmissions_Honouring(shipment) == ShipmentEmissions(shipment)

\* transformations.py lines 29-33: the call made for one shipment, with the
\* three required arguments only
EtlEmissions(shipment) ==
    IF ~(RequiredKeys \subseteq DOMAIN shipment)
    THEN Raised("KeyError", NoLocals)
    ELSE calculate_transport_emissions(
             shipment["distance_km"], shipment["weight_kg"], shipment["transport_mode"],
             None, Rat(8, 10), R(1))

\* generate_massive_data.py lines 32-38: the loop calls run_etl_pipeline for
\* the next batch
MassiveDataNextBatch ==
    /\ etl.pc = "idle"
    /\ etl.batch < MaxEtlBatches
    /\ etl' = [EtlStart EXCEPT !.pc = "generate", !.batch = etl.batch + 1,
                               !.history = etl.history]
    /\ UNCHANGED <<emission_factors, float_half, workers, earlier, weatherVars, callVars, batchVars>>

\* main.py lines 26-40: the generator returns a list of shipments
EtlGenerate ==
    /\ etl.pc = "generate"
    /\ \E batch \in EtlBatches :
           etl' = [etl EXCEPT !.pc = "validate", !.shipments = batch]
    /\ UNCHANGED <<emission_factors, float_half, workers, earlier, weatherVars, callVars, batchVars>>

\* main.py lines 43-46
EtlValidate ==
    /\ etl.pc = "validate"
    /\ LET issues == validate_shipments(etl.shipments)
       IN  etl' = IF issues.status = "raised"
                  THEN [etl EXCEPT !.pc = "raised", !.error = issues.error,
                                   !.stage = "validate"]
                  ELSE [etl EXCEPT !.pc = "transform", !.issues = issues.result,
                                   !.i = 1, !.enriched = <<>>]
    /\ UNCHANGED <<emission_factors, float_half, workers, earlier, weatherVars, callVars, batchVars>>

\* mutant: a shipment whose calculation fails is left out of the enriched
\* list
EtlTransformStep_SkipFailed ==
    /\ etl.pc = "transform"
    /\ etl.i <= Len(etl.shipments)
    /\ LET emissions == EtlEmissions(etl.shipments[etl.i])
       IN  etl' = IF emissions.status = "raised"
                  THEN [etl EXCEPT !.i = @ + 1]
                  ELSE [etl EXCEPT
                           !.shipments[etl.i] = DictUpdate(@, emissions.result),
                           !.enriched = Append(@, etl.i),
                           !.i = @ + 1]
    /\ UNCHANGED <<emission_factors, float_half, workers, earlier, weatherVars, callVars, batchVars>>

\* mutant: when a calculation fails the updates made so far are undone
EtlTransformStep_RollBack ==
    /\ etl.pc = "transform"
    /\ etl.i <= Len(etl.shipments)
    /\ LET emissions == EtlEmissions(etl.shipments[etl.i])
       IN  etl' = IF emissions.status = "raised"
                  THEN [etl EXCEPT !.pc = "raised", !.error = emissions.error,
                                   !.stage = "transform",
                                   !.shipments = [n \in DOMAIN etl.shipments |->
                                       [k \in DOMAIN etl.shipments[n] \ EmissionKeys |->
                                           etl.shipments[n][k]]]]
                  ELSE [etl EXCEPT
                           !.shipments[etl.i] = DictUpdate(@, emissions.result),
                           !.enriched = Append(@, etl.i),
                           !.i = @ + 1]
    /\ UNCHANGED <<emission_factors, float_half, workers, earlier, weatherVars, callVars, batchVars>>

\* transformations.py lines 28-35, one iteration: the shipment of the
\* caller's list is updated in place and appended, by reference, to
\* enriched; an exception leaves calculate_emissions_for_shipments and is
\* re-raised by main.py lines 75-80
EtlTransformStep ==
    /\ etl.pc = "transform"
    /\ etl.i <= Len(etl.shipments)
    /\ LET emissions == EtlEmissions(etl.shipments[etl.i])
       IN  etl' = IF emissions.status = "raised"
                  THEN [etl EXCEPT !.pc = "raised", !.error = emissions.error,
                                   !.stage = "transform"]
                  ELSE [etl EXCEPT
                           !.shipments[etl.i] = DictUpdate(@, emissions.result),
                           !.enriched = Append(@, etl.i),
                           !.i = @ + 1]
    /\ UNCHANGED <<emission_factors, float_half, workers, earlier, weatherVars, callVars, batchVars>>

\* transformations.py lines 36-37 and main.py lines 51-52: enriched is
\* returned and bound to shipments
EtlTransformReturn ==
    /\ etl.pc = "transform"
    /\ etl.i > Len(etl.shipments)
    /\ etl' = [etl EXCEPT !.pc = "derive", !.returned = ListOf(etl.enriched)]
    /\ UNCHANGED <<emission_factors, float_half, workers, earlier, weatherVars, callVars, batchVars>>

\* transformations.py lines 71-75
carbon_per_mile(shipment) ==
    IF RLt(R(0), shipment["distance_km"])
    THEN RMul(shipment["co2_kg"], RInv(shipment["distance_km"]))
    ELSE R(0)

\* main.py lines 54-56, transformations.py lines 62-76
EtlDerive ==
    /\ etl.pc = "derive"
    /\ etl' = [etl EXCEPT
                  !.pc = "anomalies",
                  !.shipments = [n \in DOMAIN etl.shipments |->
                                    DictUpdate(etl.shipments[n],
                                               [carbon_per_mile |->
                                                    carbon_per_mile(etl.shipments[n])])]]
    /\ UNCHANGED <<emission_factors, float_half, workers, earlier, weatherVars, callVars, batchVars>>

\* data_quality.py lines 43-67: a z-score above 3 needs more than ten
\* values, so no shipment of a batch of this size is flagged
flag_anomalous_emissions(batch) == <<>>

\* main.py lines 58-61
EtlAnomalies ==
    /\ etl.pc = "anomalies"
    /\ etl' = [etl EXCEPT !.pc = "ingest",
                          !.anomalies = flag_anomalous_emissions(etl.shipments)]
    /\ UNCHANGED <<emission_factors, float_half, workers, earlier, weatherVars, callVars, batchVars>>

\* main.py lines 63-67, ingestion.py lines 26-115: ingest_daily_shipments is
\* invoked with the enriched shipments; the database commits or, for a list
\* that is not empty, fails, and the failure is re-raised
EtlIngest ==
    /\ etl.pc = "ingest"
    /\ \E committed \in IF etl.shipments = <<>> THEN {TRUE} ELSE BOOLEAN :
           etl' = IF committed
                  THEN [etl EXCEPT !.pc = "report",
                                   !.ingest_calls = Append(@, etl.shipments)]
                  ELSE [etl EXCEPT !.pc = "raised", !.error = "DatabaseError",
                                   !.stage = "ingest",
                                   !.ingest_calls = Append(@, etl.shipments)]
    /\ UNCHANGED <<emission_factors, float_half, workers, earlier, weatherVars, callVars, batchVars>>

\* main.py lines 69-73
EtlReport ==
    /\ etl.pc = "report"
    /\ etl' = [etl EXCEPT !.pc = "done"]
    /\ UNCHANGED <<emission_factors, float_half, workers, earlier, weatherVars, callVars, batchVars>>

\* what the loop keeps of a batch
BatchOutcome(outcome) ==
    [outcome |-> outcome, stage |-> etl.stage, error |-> etl.error,
     ingest_calls |-> Len(etl.ingest_calls)]

\* generate_massive_data.py lines 40-47: run_etl_pipeline has returned
MassiveDataCompleted ==
    /\ etl.pc = "done"
    /\ etl' = [etl EXCEPT !.pc = "idle", !.history = Append(@, BatchOutcome("completed"))]
    /\ UNCHANGED <<emission_factors, float_half, workers, earlier, weatherVars, callVars, batchVars>>

\* generate_massive_data.py lines 49-51: the exception that run_etl_pipeline
\* re-raised is printed and the loop goes on to the next batch
MassiveDataExcept ==
    /\ etl.pc = "raised"
    /\ etl' = [etl EXCEPT !.pc = "idle", !.history = Append(@, BatchOutcome("failed"))]
    /\ UNCHANGED <<emission_factors, float_half, workers, earlier, weatherVars, callVars, batchVars>>

InitEtl ==
    /\ emission_factors = EmissionFactors
    /\ float_half \in {"on", "below", "above"}
    /\ args = Args(R(1000), R(1000), "ground", None, Rat(8, 10), R(1))
    /\ args2 = args
    /\ ret = NotCalled
    /\ ret2 = NotCalled
    /\ shipments = <<>>
    /\ include_scope_3 = TRUE
    /\ frame = IdleFrame
    /\ batch_ret = NotCalled
    /\ earlier = NotCalled
    /\ obs = StillObservation
    /\ obs2 = StillObservation
    /\ weather_ret = NotCalled
    /\ weather_ret2 = NotCalled
    /\ workers = NoWorkers
    /\ etl = EtlStart

NextEtl ==
    \/ MassiveDataNextBatch
    \/ EtlGenerate
    \/ EtlValidate
    \/ EtlTransformStep
    \/ EtlTransformReturn
    \/ EtlDerive
    \/ EtlAnomalies
    \/ EtlIngest
    \/ EtlReport
    \/ MassiveDataCompleted
    \/ MassiveDataExcept

SpecEtl == InitEtl /\ [][NextEtl]_vars

-----------------------------------------------------------------------------
(* A caller that compares a shipment with and without the weather           *)

\* cold, optimal and hot, gale and downpour, each one possibly missing, in
\* dry air; damp air at an optimal or missing temperature
WeatheredObservations ==
    { Observation(t, ws, R(0), p, h, m) :
        t  \in {Absent, R(0 - 30), R(20), R(35)},
        ws \in {Absent, R(51)},
        p  \in {Absent, R(11)},
        h  \in {Absent, R(50)},
        m  \in {"air", "ground", "sea", "train"} }
    \cup
    { Observation(t, ws, R(0), R(0), h, m) :
        t  \in {Absent, R(20)},
        ws \in {R(10), R(51)},
        h  \in {R(70), R(90)},
        m  \in {"air", "ground", "sea", "train"} }

\* 100 km and one ton by each mode: the default load, a negative load factor,
\* a fuel efficiency of zero
WeatheredInputs ==
    { Args(R(100), R(1000), m, None, lf, fe) :
        m \in {"air", "ground", "sea"},
        lf \in {Rat(8, 10), Rat(0 - 8, 10)},
        fe \in {R(1), R(0)} }

InitWeathered ==
    /\ emission_factors = EmissionFactors
    /\ float_half \in {"on", "below", "above"}
    /\ args \in WeatheredInputs
    /\ args2 = args
    /\ ret = NotCalled
    /\ ret2 = NotCalled
    /\ shipments = <<>>
    /\ include_scope_3 = TRUE
    /\ frame = IdleFrame
    /\ batch_ret = NotCalled
    /\ earlier = NotCalled
    /\ obs \in WeatheredObservations
    /\ obs2 = obs
    /\ weather_ret = NotCalled
    /\ weather_ret2 = NotCalled
    /\ workers = NoWorkers
    /\ etl = EtlIdle

SpecWeathered == InitWeathered /\ [][NextChain]_vars

-----------------------------------------------------------------------------
(* A caller that runs a batch, then its shards or a permutation of it       *)

\* a parcel of 125/128 kg = 0.9765625 kg: a fifth of its weight, 0.1953125,
\* lies half way between two 6-decimal numbers
TieShipment == Shipment(R(1000), Rat(125, 128), "ground")

ShardShipments == {TinyShipment, FineShipment, TieShipment, AirParcel}

\* valid batches of up to three shipments
ShardBatches ==
    {<<>>} \cup { <<a>> : a \in ShardShipments }
           \cup { <<a, b>> : a, b \in ShardShipments }
           \cup { <<a, b, c>> : a, b, c \in ShardShipments }

Halves == {"on", "below", "above"}

\* where the sums of a call on part lie when they are exact decimal halves:
\* as those of the call on whole when both add the same numbers in the same
\* order, anywhere otherwise
HalvesOfPart(part, whole, half) == IF part = whole THEN {half} ELSE Halves

\* the whole batch, then the shipments before and those after a cut
ShardPlans(batch, flag, half) ==
    { <<Worker(batch, flag, half),
        Worker(SubSeq(batch, 1, k), flag, h1),
        Worker(SubSeq(batch, k + 1, Len(batch)), flag, h2)>> :
        k \in 0..Len(batch), h1 \in Halves, h2 \in Halves }

AllPermutations(batch) ==
    { [i \in 1..Len(batch) |-> batch[f[i]]] :
        f \in { g \in [1..Len(batch) -> 1..Len(batch)] :
                   \A i, j \in 1..Len(batch) : g[i] = g[j] => i = j } }

\* float addition is commutative, not associative: a permutation adds the
\* same numbers to other floats only when it moves a shipment that is not
\* one of the first two
OrderMatters(batch, permuted) == \E i \in 3..Len(batch) : permuted[i] # batch[i]

\* the batch, then a permutation of it
PermutationPlans(batch, flag, half) ==
    { <<Worker(batch, flag, half), Worker(permuted, flag, h)>> :
        permuted \in AllPermutations(batch), h \in Halves }

InitShards ==
    /\ emission_factors = EmissionFactors
    /\ float_half \in Halves
    /\ args = Args(R(1000), R(1000), "ground", None, Rat(8, 10), R(1))
    /\ args2 = args
    /\ ret = NotCalled
    /\ ret2 = NotCalled
    /\ shipments = <<>>
    /\ include_scope_3 = TRUE
    /\ frame = IdleFrame
    /\ batch_ret = NotCalled
    /\ earlier = NotCalled
    /\ obs = StillObservation
    /\ obs2 = StillObservation
    /\ weather_ret = NotCalled
    /\ weather_ret2 = NotCalled
    /\ \E batch \in ShardBatches, flag \in BOOLEAN :
           /\ workers \in ShardPlans(batch, flag, float_half)
                              \cup PermutationPlans(batch, flag, float_half)
           /\ \A w \in DOMAIN workers :
                  workers[w].half \in
                      IF Len(workers) = 2 /\ ~OrderMatters(batch, workers[2].shipments)
                      THEN {float_half}
                      ELSE HalvesOfPart(workers[w].shipments, batch, float_half)
    /\ etl = EtlIdle

\* the calls are made one after the other
Turn(w) == \A v \in 1..(w - 1) : workers[v].ret # NotCalled

ShardBegin  == \E w \in DOMAIN workers : Turn(w) /\ WorkerBegin(w)
ShardLoop   == \E w \in DOMAIN workers : Turn(w) /\ WorkerLoop(w)
ShardFinish == \E w \in DOMAIN workers : Turn(w) /\ WorkerFinish(w)

NextShards == ShardBegin \/ ShardLoop \/ ShardFinish

SpecShards == InitShards /\ [][NextShards]_vars

-----------------------------------------------------------------------------
(* Properties of calculate_transport_emissions                             *)

\* the calls made so far, each with its arguments
Calls == { c \in {<<args, ret>>, <<args2, ret2>>} : c[2] # NotCalled }

ValidModes == {"air", "ground", "sea"}

\* C1: a call with distance_km <= 0, weight_kg <= 0 or a mode other than
\* air, ground, sea raises, returns no result and has computed no emission
\* value, whatever the other arguments are.
C1_InvalidInputRaises ==
    \A c \in Calls :
        (\/ c[1].distance_km[1] <= 0
         \/ c[1].weight_kg[1] <= 0
         \/ c[1].transport_mode \notin ValidModes)
        => /\ c[2].status = "raised"
           /\ c[2].error = "ValueError"
           /\ c[2].result = None
           /\ c[2].locals.computed = {}

\* an unknown mode with a zero load factor: the validation error, not the
\* division error, is what leaves the call
C1_Witness ==
    /\ ret.status = "raised"
    /\ args.transport_mode = "train"
    /\ args.distance_km = R(100)
    /\ args.weight_kg = R(1000)
    /\ args.load_factor = R(0)
    /\ args.weather_impact = HotWeatherImpact

\* the coefficient table of the documentation, kg per ton-km
FactorOf(gas, mode) ==
    CASE gas = "co2" /\ mode = "air"    -> Rat(102, 100)
      [] gas = "co2" /\ mode = "ground" -> Rat(89, 1000)
      [] gas = "co2" /\ mode = "sea"    -> Rat(14, 1000)
      [] gas = "ch4" /\ mode = "air"    -> Rat(1, 10000)
      [] gas = "ch4" /\ mode = "ground" -> Rat(2, 10000)
      [] gas = "ch4" /\ mode = "sea"    -> Rat(5, 100000)
      [] gas = "n2o" /\ mode = "air"    -> Rat(1, 100000)
      [] gas = "n2o" /\ mode = "ground" -> Rat(2, 100000)
      [] gas = "n2o" /\ mode = "sea"    -> Rat(5, 1000000)

ProductOfFactors(wi) ==
    IF wi = None THEN R(1)
    ELSE RMul(wi.temperature_factor,
              RMul(wi.wind_factor, RMul(wi.precipitation_factor, wi.humidity_factor)))

\* factor x (weight_kg / 1000) x distance_km x ((1 / load_factor) x fuel_efficiency) x weather
UnroundedMass(gas, a) ==
    RMul(RMul(RMul(RMul(FactorOf(gas, a.transport_mode), RMul(a.weight_kg, Rat(1, 1000))),
                   a.distance_km),
              RMul(RInv(a.load_factor), a.fuel_efficiency)),
         ProductOfFactors(a.weather_impact))

\* C2: every returned gas mass is the 6-decimal rounding of
\* factor x (weight_kg/1000) x distance_km x ((1/load_factor) x fuel_efficiency)
\* x weather factor, taken with the unrounded factors.
C2_MassFormula ==
    \A c \in Calls :
        c[2].status = "returned"
        => /\ c[2].result.co2_kg = round(UnroundedMass("co2", c[1]), 6)
           /\ c[2].result.ch4_kg = round(UnroundedMass("ch4", c[1]), 6)
           /\ c[2].result.n2o_kg = round(UnroundedMass("n2o", c[1]), 6)

\* a result whose reported factors are both rounded, and whose CO2 mass is
\* not the one the reported factors would give
C2_Witness ==
    /\ ret.status = "returned"
    /\ args.weather_impact = WarmWeatherImpact
    /\ ret.result.weather_factor # ProductOfFactors(args.weather_impact)
    /\ ret.result.co2_kg #
           round(RMul(RMul(RMul(RMul(FactorOf("co2", args.transport_mode),
                                     RMul(args.weight_kg, Rat(1, 1000))),
                                args.distance_km),
                           ret.result.operational_factor),
                      ret.result.weather_factor), 6)

\* C3: the documented scenario: 1000 km, 1000 kg, ground, load factor 0.8,
\* fuel efficiency 1.0, no weather impact returns co2 111.25, ch4 0.25,
\* n2o 0.025, co2-equivalent 124.95, operational factor 1.25, weather factor 1.0.
C3_Scenario ==
    \A c \in Calls :
        c[1] = Args(R(1000), R(1000), "ground", None, Rat(8, 10), R(1))
        => /\ c[2].status = "returned"
           /\ c[2].result =
                  [co2_kg             |-> Rat(11125, 100),
                   ch4_kg             |-> Rat(25, 100),
                   n2o_kg             |-> Rat(25, 1000),
                   co2_equivalent_kg  |-> Rat(12495, 100),
                   weather_factor     |-> R(1),
                   operational_factor |-> Rat(125, 100)]

C3_Witness ==
    /\ args = Args(R(1000), R(1000), "ground", None, Rat(8, 10), R(1))
    /\ ret.status = "returned"

\* co2_kg + ch4_kg x 25 + n2o_kg x 298 over the returned fields
GwpOfReturned(r) ==
    RAdd(RAdd(r.co2_kg, RMul(r.ch4_kg, R(25))), RMul(r.n2o_kg, R(298)))

GwpGap(r) == RAbs(RSub(r.co2_equivalent_kg, GwpOfReturned(r)))

\* C4 as stated: on the returned fields the identity holds to within 1e-6
\* (taken here for the calls with a load factor in (0, 1] only).
C4_Original ==
    \A c \in Calls :
        (/\ c[2].status = "returned"
         /\ c[1].load_factor[1] > 0
         /\ RLe(c[1].load_factor, R(1)))
        => RLe(GwpGap(c[2].result), Rat(1, 1000000))

\* C4: co2_equivalent_kg is rounded from the unrounded masses, so on the
\* returned fields the identity co2 + 25 ch4 + 298 n2o holds to within
\* 162.5e-6 kg: half a unit of the sixth decimal for co2_equivalent_kg and
\* for co2_kg, 25 halves for ch4_kg and 298 halves for n2o_kg.
C4_GwpIdentity ==
    \A c \in Calls :
        c[2].status = "returned"
        => /\ c[2].result.co2_equivalent_kg =
                  round(RAdd(RAdd(c[2].locals.co2_kg, RMul(c[2].locals.ch4_kg, R(25))),
                             RMul(c[2].locals.n2o_kg, R(298))), 6)
           /\ RLe(GwpGap(c[2].result), Rat(1625, 10000000))

\* a small shipment: CH4 and N2O round to 0 and the gap exceeds 1e-6
C4_Witness ==
    /\ ret.status = "returned"
    /\ args.distance_km = R(1)
    /\ args.weight_kg = R(1)
    /\ ret.result.ch4_kg = R(0)
    /\ ret.result.n2o_kg = R(0)
    /\ ret.result.co2_kg[1] > 0
    /\ RLt(Rat(1, 1000000), GwpGap(ret.result))

\* C5 as stated: with distance_km > 0, weight_kg > 0 and a valid mode, every
\* returned mass is >= 0 for any load_factor, fuel_efficiency and
\* weather_impact the function accepts.
C5_Original ==
    \A c \in Calls :
        (/\ c[1].distance_km[1] > 0
         /\ c[1].weight_kg[1] > 0
         /\ c[1].transport_mode \in ValidModes
         /\ c[2].status = "returned")
        => /\ c[2].result.co2_kg[1] >= 0
           /\ c[2].result.ch4_kg[1] >= 0
           /\ c[2].result.n2o_kg[1] >= 0
           /\ c[2].result.co2_equivalent_kg[1] >= 0

\* the second call has half the load factor of the first, in (0, 1], and
\* both calls returned
HalvedLoadPair ==
    /\ args.load_factor[1] > 0
    /\ RLe(args.load_factor, R(1))
    /\ args2 = [args EXCEPT !.load_factor = RMul(@, Rat(1, 2))]
    /\ ret.status = "returned"
    /\ ret2.status = "returned"

Twice(x) == RMul(R(2), x)

\* C6 as stated: halving the load factor doubles the returned operational
\* factor and each returned mass.
C6_Original ==
    HalvedLoadPair
    => /\ ret2.result.operational_factor = Twice(ret.result.operational_factor)
       /\ ret2.result.co2_kg = Twice(ret.result.co2_kg)
       /\ ret2.result.ch4_kg = Twice(ret.result.ch4_kg)
       /\ ret2.result.n2o_kg = Twice(ret.result.n2o_kg)
       /\ ret2.result.co2_equivalent_kg = Twice(ret.result.co2_equivalent_kg)

WithinOf(x, y, tolerance) == RLe(RAbs(RSub(x, y)), tolerance)

\* C6: halving the load factor doubles the unrounded operational factor and
\* the unrounded masses exactly; each returned value is within one unit of
\* its last decimal (1e-6 kg, 1e-4 for the factor) of twice the value
\* returned for the full load factor.
C6_HalvedLoadDoubles ==
    HalvedLoadPair
    => /\ ret2.locals.operational_factor = Twice(ret.locals.operational_factor)
       /\ ret2.locals.co2_kg = Twice(ret.locals.co2_kg)
       /\ ret2.locals.ch4_kg = Twice(ret.locals.ch4_kg)
       /\ ret2.locals.n2o_kg = Twice(ret.locals.n2o_kg)
       /\ ret2.locals.co2_equivalent_kg = Twice(ret.locals.co2_equivalent_kg)
       /\ WithinOf(ret2.result.operational_factor,
                   Twice(ret.result.operational_factor), Rat(1, 10000))
       /\ WithinOf(ret2.result.co2_kg, Twice(ret.result.co2_kg), Rat(1, 1000000))
       /\ WithinOf(ret2.result.ch4_kg, Twice(ret.result.ch4_kg), Rat(1, 1000000))
       /\ WithinOf(ret2.result.n2o_kg, Twice(ret.result.n2o_kg), Rat(1, 1000000))
       /\ WithinOf(ret2.result.co2_equivalent_kg,
                   Twice(ret.result.co2_equivalent_kg), Rat(1, 1000000))

\* load factor 0.3 against 0.15: 3.3333 and 6.6667 are reported
C6_Witness ==
    /\ HalvedLoadPair
    /\ args.load_factor = Rat(3, 10)
    /\ ret2.result.operational_factor # Twice(ret.result.operational_factor)
    /\ ret2.locals.operational_factor = Twice(ret.locals.operational_factor)

BasesComputed ==
    /\ ret # NotCalled
    /\ ret2 # NotCalled
    /\ "base" \in ret.locals.computed
    /\ "base" \in ret2.locals.computed

BasesDoubled ==
    /\ ret2.locals.base_co2 = Twice(ret.locals.base_co2)
    /\ ret2.locals.base_ch4 = Twice(ret.locals.base_ch4)
    /\ ret2.locals.base_n2o = Twice(ret.locals.base_n2o)

\* C7: the base mass of each gas is linear in distance and in weight:
\* doubling distance_km, or weight_kg, with everything else fixed doubles
\* base_co2, base_ch4 and base_n2o exactly, for every mode.
C7_BaseLinear ==
    /\ (BasesComputed /\ args2 = [args EXCEPT !.distance_km = Twice(@)]) => BasesDoubled
    /\ (BasesComputed /\ args2 = [args EXCEPT !.weight_kg = Twice(@)]) => BasesDoubled

C7_Witness ==
    /\ BasesComputed
    /\ args.transport_mode = "sea"
    /\ args.weight_kg = R(3)
    /\ args2 = [args EXCEPT !.weight_kg = R(6)]
    /\ ret.locals.base_n2o[1] > 0
    /\ ret2.locals.base_n2o = Twice(ret.locals.base_n2o)

\* one call without a weather impact, the other with WeatherImpact()
NeutralPair ==
    /\ ret # NotCalled
    /\ ret2 # NotCalled
    /\ \/ args.weather_impact = None /\ args2 = [args EXCEPT !.weather_impact = NeutralWeatherImpact]
       \/ args.weather_impact = NeutralWeatherImpact /\ args2 = [args EXCEPT !.weather_impact = None]

\* C8: a call with weather_impact=None returns weather_factor 1.0 and the
\* same six result fields as the call with an explicit neutral
\* WeatherImpact(); when one of the two raises, so does the other.
C8_WeatherNeutral ==
    NeutralPair
    => /\ ret.status = ret2.status
       /\ ret.status = "returned"
          => /\ ret.result = ret2.result
             /\ ret.result.weather_factor = R(1)

C8_Witness ==
    /\ NeutralPair
    /\ args.weather_impact = None
    /\ ret.status = "returned"
    /\ ret.result.co2_kg[1] > 0
    /\ ret2.result = ret.result

-----------------------------------------------------------------------------
(* Properties of calculate_supply_chain_emissions                          *)

\* the per-shipment calculation fails for this descriptor: a required field
\* is missing, the distance, weight or mode is invalid, or the division by
\* the load factor fails
ShipmentFails(s) ==
    \/ "distance_km" \notin DOMAIN s
    \/ "weight_kg" \notin DOMAIN s
    \/ "transport_mode" \notin DOMAIN s
    \/ s["distance_km"][1] <= 0
    \/ s["weight_kg"][1] <= 0
    \/ s["transport_mode"] \notin ValidModes
    \/ ("load_factor" \in DOMAIN s /\ s["load_factor"][1] = 0)

BatchFails == \E k \in 1..Len(shipments) : ShipmentFails(shipments[k])

BatchOver == frame.pc \in {"raised", "returned"}

\* C9: the batch calculation is all-or-nothing: when the per-shipment
\* calculation fails for a shipment at any position, the call raises and
\* returns no totals, no shipment is skipped, and the scope-3 estimate is not
\* computed; a call that returns has computed every shipment.
C9_BatchAllOrNothing ==
    /\ (BatchOver /\ BatchFails)
       => /\ batch_ret.status = "raised"
          /\ batch_ret.result = None
          /\ frame.scope_3_emissions = None
          /\ ShipmentFails(shipments[frame.i])
          /\ \A k \in 1..(frame.i - 1) : ~ShipmentFails(shipments[k])
    /\ batch_ret.status = "returned" => (~BatchFails /\ frame.i = Len(shipments) + 1)
    /\ (~BatchOver) => batch_ret = NotCalled

\* a valid shipment followed by a failing one: the first had been added to
\* the running totals when the call raised
C9_Witness ==
    /\ shipments = <<ScenarioShipment, ZeroLoadShipment>>
    /\ include_scope_3
    /\ batch_ret.status = "raised"
    /\ batch_ret.error = "ZeroDivisionError"
    /\ frame.total_co2 = Rat(11125, 100)

\* the per-shipment call made independently for a descriptor
IndependentCall(s) ==
    calculate_transport_emissions(
        s["distance_km"], s["weight_kg"], s["transport_mode"],
        IF "weather_impact" \in DOMAIN s THEN s["weather_impact"] ELSE None,
        IF "load_factor" \in DOMAIN s THEN s["load_factor"] ELSE Rat(8, 10),
        IF "fuel_efficiency" \in DOMAIN s THEN s["fuel_efficiency"] ELSE R(1))

RECURSIVE SumOfField(_, _, _)
SumOfField(batch, n, field) ==
    IF n = 0 THEN R(0)
    ELSE RAdd(SumOfField(batch, n - 1, field), IndependentCall(batch[n]).result[field])

\* C10: with include_scope_3 = False, each returned total is the sum over the
\* shipments of the field returned by the per-shipment calculation called
\* independently with the shipment's fields (None, 0.8 and 1.0 for the
\* absent optional ones).
C10_BatchAdditive ==
    (batch_ret.status = "returned" /\ ~include_scope_3)
    => LET n == Len(shipments)
       IN  /\ batch_ret.result.total_co2_kg = SumOfField(shipments, n, "co2_kg")
           /\ batch_ret.result.total_ch4_kg = SumOfField(shipments, n, "ch4_kg")
           /\ batch_ret.result.total_n2o_kg = SumOfField(shipments, n, "n2o_kg")
           /\ batch_ret.result.total_co2_equivalent_kg =
                  SumOfField(shipments, n, "co2_equivalent_kg")

\* a shipment with all optional fields and one with none
C10_Witness ==
    /\ shipments = <<FullShipment, TinyShipment>>
    /\ ~include_scope_3
    /\ batch_ret.status = "returned"
    /\ batch_ret.result.total_co2_kg = RAdd(R(459), Rat(111, 1000000))
    /\ batch_ret.result.shipment_count = 2

-----------------------------------------------------------------------------
(* Properties of the scope-3 estimate                                      *)

\* the same batch has been run under both values of the flag and returned
\* both times
BothFlagsReturned ==
    /\ earlier # NotCalled
    /\ earlier.ret.status = "returned"
    /\ earlier.shipments = shipments
    /\ earlier.include_scope_3 # include_scope_3
    /\ batch_ret.status = "returned"

\* the result of the run made with the given value of the flag
ResultWith(flag) == IF include_scope_3 = flag THEN batch_ret.result ELSE earlier.ret.result

\* C11: run with include_scope_3 = True and with include_scope_3 = False, a
\* valid batch gives the same total_co2_kg, total_ch4_kg, total_n2o_kg and
\* shipment_count; a batch that raises under one value raises under the other.
C11_Scope3Isolation ==
    /\ BothFlagsReturned
       => /\ ResultWith(TRUE).total_co2_kg = ResultWith(FALSE).total_co2_kg
          /\ ResultWith(TRUE).total_ch4_kg = ResultWith(FALSE).total_ch4_kg
          /\ ResultWith(TRUE).total_n2o_kg = ResultWith(FALSE).total_n2o_kg
          /\ ResultWith(TRUE).shipment_count = ResultWith(FALSE).shipment_count
    /\ (earlier # NotCalled /\ BatchOver) => batch_ret.status = earlier.ret.status

\* both runs of a two-shipment batch returned, and the two fields that may
\* differ do differ
C11_Witness ==
    /\ BothFlagsReturned
    /\ shipments = <<AirParcel, FineShipment>>
    /\ ResultWith(TRUE).total_co2_equivalent_kg # ResultWith(FALSE).total_co2_equivalent_kg
    /\ ResultWith(TRUE).scope_3_emissions_kg # ResultWith(FALSE).scope_3_emissions_kg
    /\ ResultWith(TRUE).total_co2_kg # R(0)

\* 0.2 kg per kg of goods, summed over the batch
RECURSIVE FifthOfWeights(_, _)
FifthOfWeights(batch, n) ==
    IF n = 0 THEN R(0)
    ELSE RAdd(FifthOfWeights(batch, n - 1), RMul(batch[n]["weight_kg"], Rat(2, 10)))

\* C12 as stated: the returned scope_3_emissions_kg is the sum itself, and the
\* returned total_co2_equivalent_kg is the include_scope_3 = False value plus
\* the sum.
C12_Original ==
    /\ (batch_ret.status = "returned" /\ include_scope_3)
       => batch_ret.result.scope_3_emissions_kg = FifthOfWeights(shipments, Len(shipments))
    /\ BothFlagsReturned
       => ResultWith(TRUE).total_co2_equivalent_kg =
              RAdd(ResultWith(FALSE).total_co2_equivalent_kg,
                   FifthOfWeights(shipments, Len(shipments)))
    /\ (batch_ret.status = "returned" /\ ~include_scope_3)
       => batch_ret.result.scope_3_emissions_kg = R(0)

\* C12: with include_scope_3 = True, scope_3_emissions_kg is the 6-decimal
\* rounding of the sum over the shipments of 0.2 x weight_kg, whatever the
\* distances, modes and factors are, and total_co2_equivalent_kg is the
\* 6-decimal rounding of the include_scope_3 = False value plus that sum;
\* with include_scope_3 = False, scope_3_emissions_kg is 0.
C12_Scope3Rounded ==
    /\ (batch_ret.status = "returned" /\ include_scope_3)
       => batch_ret.result.scope_3_emissions_kg =
              round(FifthOfWeights(shipments, Len(shipments)), 6)
    /\ BothFlagsReturned
       => ResultWith(TRUE).total_co2_equivalent_kg =
              round(RAdd(ResultWith(FALSE).total_co2_equivalent_kg,
                         FifthOfWeights(shipments, Len(shipments))), 6)
    /\ (batch_ret.status = "returned" /\ ~include_scope_3)
       => batch_ret.result.scope_3_emissions_kg = R(0)

\* the fine parcel beside ten kilograms by air: 2.09765625 kg of scope 3,
\* returned as 2.097656
C12_Witness ==
    /\ BothFlagsReturned
    /\ shipments = <<AirParcel, FineShipment>>
    /\ ResultWith(TRUE).scope_3_emissions_kg = Rat(2097656, 1000000)
    /\ ResultWith(FALSE).scope_3_emissions_kg = R(0)
    /\ FifthOfWeights(shipments, 2) = Rat(209765625, 100000000)

-----------------------------------------------------------------------------
(* Error propagation of calculate_transport_emissions                      *)

\* C14: calculate_transport_emissions swallows no error: a call ends by
\* returning a result or by raising, and a call that raises returns nothing.
\* A load factor of 0 with otherwise valid arguments passes the validation
\* and ends in a raised ZeroDivisionError, never in a returned result.
C14_ErrorsReraised ==
    \A c \in Calls :
        /\ c[2].status \in {"raised", "returned"}
        /\ c[2].status = "raised"
           => /\ c[2].result = None
              /\ c[2].error \in {"ValueError", "ZeroDivisionError"}
        /\ (/\ c[1].distance_km[1] > 0
            /\ c[1].weight_kg[1] > 0
            /\ c[1].transport_mode \in ValidModes
            /\ c[1].load_factor = R(0))
           => /\ c[2].status = "raised"
              /\ c[2].error = "ZeroDivisionError"
              /\ c[2].result = None
              /\ c[2].locals.computed = {"base"}
        /\ c[2].status = "returned" => c[1].load_factor # R(0)

\* 100 km and one ton by ground with a load factor of 0: the validation has
\* passed, the base emissions are computed, the division raises
C14_Witness ==
    /\ args.distance_km = R(100)
    /\ args.weight_kg = R(1000)
    /\ args.transport_mode = "ground"
    /\ args.load_factor = R(0)
    /\ args.weather_impact = HotWeatherImpact
    /\ ret # NotCalled
    /\ ret.status = "raised"
    /\ ret.error = "ZeroDivisionError"
    /\ ret.locals.base_co2 = Rat(89, 10)

-----------------------------------------------------------------------------
(* Properties of calculate_weather_impact                                  *)

\* an observation that some sub-factor compares with a number is missing:
\* the temperature and the humidity are always compared, the wind speed and
\* the precipitation by the branches of air and ground
SomeFactorFails(o) ==
    \/ o.temperature_celsius = Absent
    \/ o.humidity_percent = Absent
    \/ /\ o.transport_mode \in {"air", "ground"}
       /\ (o.wind_speed_kmh = Absent \/ o.precipitation_mm = Absent)

\* C13: calculate_weather_impact never raises; when the computation of one
\* factor fails it returns the WeatherImpact with all four factors 1.0, those
\* that could have been computed included, and calculate_transport_emissions
\* called with that value returns what it returns with no weather impact.
C13_WeatherNeverRaises ==
    /\ weather_ret # NotCalled
       => /\ weather_ret.status = "returned"
          /\ SomeFactorFails(obs)
             => weather_ret.result = WeatherImpact(R(1), R(1), R(1), R(1))
    /\ (weather_ret # NotCalled /\ SomeFactorFails(obs) /\ ret # NotCalled /\ ret2 # NotCalled)
       => /\ args.weather_impact = weather_ret.result
          /\ args2.weather_impact = None
          /\ ret.status = "returned"
          /\ ret.result = ret2.result

\* 35 degrees and a wind of 51 km/h for air would give 1.2 and 1.15; the
\* humidity is missing, and the emission calculated with the returned value
\* is the one calculated without weather
C13_Witness ==
    /\ obs.temperature_celsius = R(35)
    /\ obs.wind_speed_kmh = R(51)
    /\ obs.humidity_percent = Absent
    /\ obs.precipitation_mm = R(11)
    /\ obs.transport_mode = "air"
    /\ weather_ret # NotCalled
    /\ weather_ret.locals.computed = {"temp_factor", "wind_factor", "precip_factor"}
    /\ weather_ret.result.temperature_factor = R(1)
    /\ args.transport_mode = "air"
    /\ ret # NotCalled
    /\ ret2 # NotCalled
    /\ ret.result.co2_kg = Rat(1275, 10)

\* the calls of calculate_weather_impact made so far, each with its arguments
WeatherCalls == { c \in {<<obs, weather_ret>>, <<obs2, weather_ret2>>} : c[2] # NotCalled }

\* distance of a temperature from the nearer edge of the band [15, 25]
DeviationFromBand(t) ==
    IF RLt(t, R(15)) THEN RSub(R(15), t)
    ELSE IF RLt(R(25), t) THEN RSub(t, R(25))
    ELSE R(0)

\* 1 + d x s, at most 1.2
TemperatureRule(t, s) ==
    LET f == RAdd(R(1), RMul(DeviationFromBand(t), s))
    IN  IF RLt(Rat(12, 10), f) THEN Rat(12, 10) ELSE f

Sensitivity(mode) ==
    CASE mode = "air"    -> Rat(2, 100)
      [] mode = "ground" -> Rat(3, 100)
      [] mode = "sea"    -> Rat(1, 100)

\* C15: for air, ground and sea the temperature factor is 1.0 for every
\* temperature in [15, 25], both ends included, and min(1.2, 1 + d x s)
\* outside, d the distance to the nearer end and s = 0.02, 0.03, 0.01; the
\* temperature as far on the other side of the band has the same factor.
C15_TemperatureFactor ==
    \A c \in WeatherCalls :
        (c[1].transport_mode \in ValidModes /\ ~SomeFactorFails(c[1]))
        => LET t == c[1].temperature_celsius
               m == c[1].transport_mode
               f == c[2].result.temperature_factor
           IN  /\ f = TemperatureRule(t, Sensitivity(m))
               /\ (RLe(R(15), t) /\ RLe(t, R(25))) => f = R(1)
               /\ RLe(f, Rat(12, 10))
               /\ _calculate_temperature_factor(RSub(R(40), t), m) = Value(f)

\* sea at 10 degrees below zero: 25 degrees from the band, 1.25 cut to 1.2
C15_Witness ==
    /\ obs.transport_mode = "sea"
    /\ obs.temperature_celsius = R(0 - 10)
    /\ ~SomeFactorFails(obs)
    /\ weather_ret # NotCalled
    /\ weather_ret.result.temperature_factor = Rat(12, 10)
    /\ _calculate_temperature_factor(R(5), "sea") = Value(Rat(11, 10))
    /\ _calculate_temperature_factor(R(25), "ground") = Value(R(1))

\* C16: the precipitation factor is a step function with exclusive
\* thresholds: ground 1.12 above 10 mm, 1.06 above 5 mm up to 10 mm, else
\* 1.0; air 1.05 above 5 mm, else 1.0; sea 1.0.
C16_PrecipitationFactor ==
    \A c \in WeatherCalls :
        (c[1].transport_mode \in ValidModes /\ ~SomeFactorFails(c[1]))
        => LET p == c[1].precipitation_mm
               m == c[1].transport_mode
               f == c[2].result.precipitation_factor
           IN  /\ m = "ground"
                  => f = IF RLt(R(10), p) THEN Rat(112, 100)
                         ELSE IF RLt(R(5), p) /\ RLe(p, R(10)) THEN Rat(106, 100)
                         ELSE R(1)
               /\ m = "air" => f = IF RLt(R(5), p) THEN Rat(105, 100) ELSE R(1)
               /\ m = "sea" => f = R(1)
               /\ (m = "ground" /\ p = R(10)) => f = Rat(106, 100)
               /\ (m = "ground" /\ p = R(5)) => f = R(1)

\* ground at exactly 10 mm and, in the second call, sea under the same rain
C16_Witness ==
    /\ obs.transport_mode = "ground"
    /\ obs.precipitation_mm = R(10)
    /\ ~SomeFactorFails(obs)
    /\ weather_ret # NotCalled
    /\ weather_ret.result.precipitation_factor = Rat(106, 100)
    /\ obs2.transport_mode = "sea"
    /\ weather_ret2 # NotCalled
    /\ weather_ret2.result.precipitation_factor = R(1)

\* C17: the wind factor is a step function of the wind speed: air 1.15 above
\* 50 km/h, 1.08 above 25 km/h, else 1.0; ground 1.05 above 40 km/h, else
\* 1.0; sea 1.0.  The humidity factor is 1.02 above 80 percent, 1.01 above 60
\* percent, else 1.0, for every mode.
C17_WindAndHumidityFactor ==
    \A c \in WeatherCalls :
        (c[1].transport_mode \in ValidModes /\ ~SomeFactorFails(c[1]))
        => LET ws == c[1].wind_speed_kmh
               h  == c[1].humidity_percent
               m  == c[1].transport_mode
           IN  /\ m = "air"
                  => c[2].result.wind_factor =
                         IF RLt(R(50), ws) THEN Rat(115, 100)
                         ELSE IF RLt(R(25), ws) THEN Rat(108, 100)
                         ELSE R(1)
               /\ m = "ground"
                  => c[2].result.wind_factor =
                         IF RLt(R(40), ws) THEN Rat(105, 100) ELSE R(1)
               /\ m = "sea" => c[2].result.wind_factor = R(1)
               /\ c[2].result.humidity_factor =
                      IF RLt(R(80), h) THEN Rat(102, 100)
                      ELSE IF RLt(R(60), h) THEN Rat(101, 100)
                      ELSE R(1)

\* air at exactly 50 km/h and exactly 80 percent: the lower steps
C17_Witness ==
    /\ obs.transport_mode = "air"
    /\ obs.wind_speed_kmh = R(50)
    /\ obs.humidity_percent = R(80)
    /\ ~SomeFactorFails(obs)
    /\ weather_ret # NotCalled
    /\ weather_ret.result.wind_factor = Rat(108, 100)
    /\ weather_ret.result.humidity_factor = Rat(101, 100)

\* 1.2 x 1.15 x 1.12 x 1.02
LargestProduct == RMul(RMul(Rat(12, 10), Rat(115, 100)), RMul(Rat(112, 100), Rat(102, 100)))

InFactorRange(f) == RLe(Rat(8, 10), f) /\ RLe(f, Rat(12, 10))

\* C18: every WeatherImpact that calculate_weather_impact returns, whatever
\* the observations and the mode string are, has each of its four factors in
\* [0.8, 1.2], and its combined factor is their product and is at most
\* 1.2 x 1.15 x 1.12 x 1.02.
C18_FactorsBounded ==
    \A c \in WeatherCalls :
        /\ c[2].status = "returned"
        /\ InFactorRange(c[2].result.temperature_factor)
        /\ InFactorRange(c[2].result.wind_factor)
        /\ InFactorRange(c[2].result.precipitation_factor)
        /\ InFactorRange(c[2].result.humidity_factor)
        /\ calculate_combined_factor(c[2].result) = ProductOfFactors(c[2].result)
        /\ RLe(calculate_combined_factor(c[2].result), LargestProduct)
        /\ RLe(Rat(8, 10), calculate_combined_factor(c[2].result))

\* ground under 10 degrees of frost, 41 km/h, 10.01 mm and 81 percent:
\* 1.2 x 1.05 x 1.12 x 1.02 = 1.439424, with the temperature factor cut
C18_Witness ==
    /\ obs.transport_mode = "ground"
    /\ obs.temperature_celsius = R(0 - 10)
    /\ weather_ret # NotCalled
    /\ weather_ret.result.temperature_factor = Rat(12, 10)
    /\ calculate_combined_factor(weather_ret.result) = Rat(1439424, 1000000)
    /\ obs2.transport_mode = "sea"
    /\ weather_ret2 # NotCalled

\* C19: the result of calculate_weather_impact does not depend on
\* wind_direction_degrees: two calls whose arguments differ in the wind
\* direction only, one of them without a direction, return the same value.
C19_WindDirectionUnused ==
    (/\ weather_ret # NotCalled
     /\ weather_ret2 # NotCalled
     /\ obs2 = [obs EXCEPT !.wind_direction_degrees = obs2.wind_direction_degrees])
    => /\ weather_ret2.status = weather_ret.status
       /\ weather_ret2.result = weather_ret.result

\* air in a wind of 26 km/h from 0 and from 180 degrees
C19_Witness ==
    /\ obs.transport_mode = "air"
    /\ obs.wind_speed_kmh = R(26)
    /\ obs.wind_direction_degrees = R(0)
    /\ obs2.wind_direction_degrees = R(180)
    /\ obs2.transport_mode = "air"
    /\ ~SomeFactorFails(obs)
    /\ weather_ret # NotCalled
    /\ weather_ret2 # NotCalled
    /\ weather_ret2.result.wind_factor = Rat(108, 100)

\* the first call has a mode that is none of the three, the second call the
\* same observations and the mode sea
UnknownModeAndSea ==
    /\ obs.transport_mode \notin ValidModes
    /\ obs2 = [obs EXCEPT !.transport_mode = "sea"]
    /\ weather_ret # NotCalled
    /\ weather_ret2 # NotCalled

\* C20 as stated: for a mode that is none of the three the call does not
\* raise and returns the WeatherImpact returned for sea.
C20_Original ==
    UnknownModeAndSea
    => /\ weather_ret.status = "returned"
       /\ weather_ret.result = weather_ret2.result

\* C20: for a mode that is none of the three the call does not raise; the
\* wind, precipitation and humidity factors are those returned for sea, and
\* the temperature factor is min(1.2, 1 + d x 0.02), the one of air (1.0 when
\* an observation it needs is missing).
C20_UnknownMode ==
    UnknownModeAndSea
    => /\ weather_ret.status = "returned"
       /\ weather_ret.result.wind_factor = weather_ret2.result.wind_factor
       /\ weather_ret.result.precipitation_factor = weather_ret2.result.precipitation_factor
       /\ weather_ret.result.humidity_factor = weather_ret2.result.humidity_factor
       /\ weather_ret.result.temperature_factor =
              IF SomeFactorFails(obs) THEN R(1)
              ELSE TemperatureRule(obs.temperature_celsius, Sensitivity("air"))
       /\ weather_ret.result.temperature_factor =
              CallWeather([obs EXCEPT !.transport_mode = "air",
                                      !.wind_speed_kmh = R(0),
                                      !.precipitation_mm = R(0)]).result.temperature_factor

\* "train" at 5 degrees, in a wind of 51 km/h and 10.01 mm of rain: 1.2 where
\* sea has 1.1; wind and rain count for neither
C20_Witness ==
    /\ UnknownModeAndSea
    /\ obs.transport_mode = "train"
    /\ obs.temperature_celsius = R(5)
    /\ obs.wind_speed_kmh = R(51)
    /\ obs.precipitation_mm = Rat(1001, 100)
    /\ obs.humidity_percent = R(81)
    /\ weather_ret.result = WeatherImpact(Rat(12, 10), R(1), R(1), Rat(102, 100))
    /\ weather_ret2.result = WeatherImpact(Rat(11, 10), R(1), R(1), Rat(102, 100))

-----------------------------------------------------------------------------
(* Rounding inside the batch calculation                                    *)

\* the sum over the batch of a mass as the per-shipment calculation had it
\* before the rounding of lines 131-134
RECURSIVE SumOfUnrounded(_, _, _)
SumOfUnrounded(batch, n, field) ==
    IF n = 0 THEN R(0)
    ELSE RAdd(SumOfUnrounded(batch, n - 1, field), IndependentCall(batch[n]).locals[field])

\* C21 as stated: each total returned by calculate_supply_chain_emissions is
\* the 6-decimal rounding of the sum of the shipments' unrounded masses, so
\* the per-shipment rounding never changes a batch total.
C21_Original ==
    (batch_ret.status = "returned" /\ ~include_scope_3)
    => LET n == Len(shipments)
       IN  /\ batch_ret.result.total_co2_kg = round(SumOfUnrounded(shipments, n, "co2_kg"), 6)
           /\ batch_ret.result.total_ch4_kg = round(SumOfUnrounded(shipments, n, "ch4_kg"), 6)
           /\ batch_ret.result.total_n2o_kg = round(SumOfUnrounded(shipments, n, "n2o_kg"), 6)
           /\ batch_ret.result.total_co2_equivalent_kg =
                  round(SumOfUnrounded(shipments, n, "co2_equivalent_kg"), 6)

-----------------------------------------------------------------------------
(* What the calculator leaves alone                                        *)

\* C22: through every sequence of calls of calculate_transport_emissions,
\* calculate_weather_impact and calculate_supply_chain_emissions, returning
\* or raising, the factor table keeps its construction-time values, and no
\* step changes the shipment descriptors, the WeatherImpact objects or the
\* other arguments passed in.
C22_NothingMutated ==
    /\ [](emission_factors = EmissionFactors)
    /\ [][/\ emission_factors' = emission_factors
          /\ shipments' = shipments
          /\ args' = args
          /\ obs' = obs]_vars

\* a per-shipment call that raised, a weather call and a returned batch with
\* a WeatherImpact inside a descriptor
C22_Witness ==
    /\ ret # NotCalled
    /\ ret.status = "raised"
    /\ weather_ret # NotCalled
    /\ batch_ret.status = "returned"
    /\ shipments = <<AirParcel, TinyShipment>>
    /\ shipments[1].weather_impact = HotWeatherImpact
    /\ emission_factors.n2o_gwp = R(298)

-----------------------------------------------------------------------------
(* Concurrent calls, shards and permutations                                *)

\* the first shipment of a batch for which the per-shipment call fails
FirstFailing(batch) ==
    CHOOSE k \in 1..Len(batch) :
        /\ ShipmentFails(batch[k])
        /\ \A j \in 1..(k - 1) : ~ShipmentFails(batch[j])

\* what calculate_supply_chain_emissions gives for a batch when it is the
\* only call running: the error of the first failing shipment, or the sums
\* of the independently computed fields with the scope-3 estimate
AloneOutcome(batch, flag, half) ==
    IF \E k \in 1..Len(batch) : ShipmentFails(batch[k])
    THEN Raised(ShipmentEmissions(batch[FirstFailing(batch)]).error, NoLocals)
    ELSE LET n == Len(batch)
             scope_3 == IF flag THEN FifthOfWeights(batch, n) ELSE R(0)
         IN  Returned(
                 SupplyChainResultOf(half,
                     SumOfField(batch, n, "co2_kg"),
                     SumOfField(batch, n, "ch4_kg"),
                     SumOfField(batch, n, "n2o_kg"),
                     RAdd(SumOfField(batch, n, "co2_equivalent_kg"), scope_3),
                     scope_3, n),
                 NoLocals)

\* C23: calls made concurrently on one calculator, their steps interleaved
\* in any order, each end as they end when run alone: every finished batch
\* call of a worker and the direct per-shipment call have the outcome of the
\* same call made alone, whatever the other calls have done, failed or not.
C23_InterleavingHarmless ==
    /\ \A w \in DOMAIN workers :
           workers[w].ret # NotCalled
           => workers[w].ret =
                  AloneOutcome(workers[w].shipments, workers[w].include_scope_3, workers[w].half)
    /\ \A w \in DOMAIN workers :
           workers[w].frame.pc = "loop"
           => LET done == SubSeq(workers[w].shipments, 1, workers[w].frame.i - 1)
              IN  workers[w].frame.total_co2 = SumOfField(done, Len(done), "co2_kg")
    /\ ret # NotCalled => ret = Call(args)

\* the first worker returned the totals of its two shipments; the second
\* worker's call raised after its first shipment; the direct call was made
C23_Witness ==
    /\ Len(workers) = 2
    /\ workers[1].shipments = <<AirParcel, TinyShipment>>
    /\ workers[1].ret # NotCalled
    /\ workers[1].ret.status = "returned"
    /\ workers[1].ret.result.shipment_count = 2
    /\ workers[2].shipments = <<TinyShipment, ZeroLoadShipment>>
    /\ workers[2].ret # NotCalled
    /\ workers[2].ret.status = "raised"
    /\ ret # NotCalled

\* the whole batch and its two shards have all returned
ShardsReturned ==
    /\ Len(workers) = 3
    /\ \A w \in DOMAIN workers : workers[w].ret # NotCalled /\ workers[w].ret.status = "returned"
    /\ workers[1].shipments = workers[2].shipments \o workers[3].shipments

SumOfShards(field) == RAdd(workers[2].ret.result[field], workers[3].ret.result[field])

\* C24: for every cut of a valid batch into two consecutive shards, the sum
\* of the shards' results is the result for the whole batch: exactly for
\* shipment_count and the three gas totals, to within 1e-6 kg per shard for
\* total_co2_equivalent_kg and scope_3_emissions_kg.
C24_ShardingSound ==
    ShardsReturned
    => /\ workers[2].ret.result.shipment_count + workers[3].ret.result.shipment_count =
              workers[1].ret.result.shipment_count
       /\ SumOfShards("total_co2_kg") = workers[1].ret.result.total_co2_kg
       /\ SumOfShards("total_ch4_kg") = workers[1].ret.result.total_ch4_kg
       /\ SumOfShards("total_n2o_kg") = workers[1].ret.result.total_n2o_kg
       /\ WithinOf(SumOfShards("total_co2_equivalent_kg"),
                   workers[1].ret.result.total_co2_equivalent_kg, Rat(2, 1000000))
       /\ WithinOf(SumOfShards("scope_3_emissions_kg"),
                   workers[1].ret.result.scope_3_emissions_kg, Rat(2, 1000000))

\* three shipments cut after the first, scope 3 included: the shards' scope-3
\* fields add up to another number than the field of the whole batch
C24_Witness ==
    /\ ShardsReturned
    /\ workers[1].include_scope_3
    /\ workers[1].shipments = <<FineShipment, TieShipment, AirParcel>>
    /\ Len(workers[2].shipments) = 1
    /\ SumOfShards("scope_3_emissions_kg") # workers[1].ret.result.scope_3_emissions_kg
    /\ SumOfShards("total_co2_kg") # R(0)

\* the batch and a permutation of it have both returned
PermutationReturned ==
    /\ Len(workers) = 2
    /\ \A w \in DOMAIN workers : workers[w].ret # NotCalled /\ workers[w].ret.status = "returned"
    /\ workers[2].shipments \in AllPermutations(workers[1].shipments)

\* C25 as stated: all six returned fields are equal for a batch and for
\* every permutation of it.
C25_Original ==
    PermutationReturned => workers[2].ret.result = workers[1].ret.result

\* C25: for a valid batch and every permutation of it, shipment_count and
\* the three gas totals are equal, and so are total_co2_equivalent_kg and
\* scope_3_emissions_kg when include_scope_3 is False; with include_scope_3
\* True these two are equal to within 1e-6 kg.
C25_OrderIndependent ==
    PermutationReturned
    => LET r1 == workers[1].ret.result
           r2 == workers[2].ret.result
       IN  /\ r2.shipment_count = r1.shipment_count
           /\ r2.total_co2_kg = r1.total_co2_kg
           /\ r2.total_ch4_kg = r1.total_ch4_kg
           /\ r2.total_n2o_kg = r1.total_n2o_kg
           /\ WithinOf(r2.total_co2_equivalent_kg, r1.total_co2_equivalent_kg, Rat(1, 1000000))
           /\ WithinOf(r2.scope_3_emissions_kg, r1.scope_3_emissions_kg, Rat(1, 1000000))
           /\ ~workers[1].include_scope_3 => r2 = r1

\* three shipments whose scope-3 sum 2.3953125 is an exact half, the last
\* one moved to the front: 2.395312 in one order, 2.395313 in the other
C25_Witness ==
    /\ PermutationReturned
    /\ workers[1].include_scope_3
    /\ workers[1].shipments = <<TinyShipment, TieShipment, AirParcel>>
    /\ workers[2].shipments = <<AirParcel, TinyShipment, TieShipment>>
    /\ workers[1].ret.result.scope_3_emissions_kg # workers[2].ret.result.scope_3_emissions_kg
    /\ workers[1].ret.result.total_co2_kg = workers[2].ret.result.total_co2_kg

\* the first call was made with the WeatherImpact of the weather call, the
\* second with the same arguments and no weather impact
WithAndWithoutWeather ==
    /\ weather_ret # NotCalled
    /\ weather_ret.status = "returned"
    /\ ret # NotCalled
    /\ ret2 # NotCalled
    /\ args = [args2 EXCEPT !.weather_impact = weather_ret.result]
    /\ args2.weather_impact = None

\* C27: every factor returned by calculate_weather_impact is at least 1.0
\* and so is their product; a valid shipment with load_factor > 0 and
\* fuel_efficiency >= 0 has, with a WeatherImpact from
\* calculate_weather_impact, masses that are not smaller than without one.
C27_WeatherNeverLowers ==
    /\ \A c \in WeatherCalls :
          c[2].status = "returned"
          => /\ RLe(R(1), c[2].result.temperature_factor)
             /\ RLe(R(1), c[2].result.wind_factor)
             /\ RLe(R(1), c[2].result.precipitation_factor)
             /\ RLe(R(1), c[2].result.humidity_factor)
             /\ RLe(R(1), calculate_combined_factor(c[2].result))
    /\ (/\ WithAndWithoutWeather
        /\ RLt(R(0), args.load_factor)
        /\ RLe(R(0), args.fuel_efficiency))
       => /\ ret.status = "returned"
          /\ ret2.status = "returned"
          /\ RLe(ret2.result.co2_kg, ret.result.co2_kg)
          /\ RLe(ret2.result.ch4_kg, ret.result.ch4_kg)
          /\ RLe(ret2.result.n2o_kg, ret.result.n2o_kg)
          /\ RLe(ret2.result.co2_equivalent_kg, ret.result.co2_equivalent_kg)

\* 30 degrees below zero: the temperature factor is at its upper clamp and
\* the masses are larger than without the weather
C27_Witness ==
    /\ WithAndWithoutWeather
    /\ obs.temperature_celsius = R(0 - 30)
    /\ weather_ret.result.temperature_factor = Rat(12, 10)
    /\ args.load_factor = Rat(8, 10)
    /\ args.fuel_efficiency = R(1)
    /\ ret.status = "returned"
    /\ ret2.status = "returned"
    /\ RLt(ret2.result.co2_kg, ret.result.co2_kg)

\* the calls on the batch that have finished: the current one and the one
\* made before with the other flag
FinishedBatchCalls ==
    { c \in {[shipments |-> shipments, include_scope_3 |-> include_scope_3, ret |-> batch_ret],
             earlier} : c # NotCalled /\ c.ret # NotCalled }

ZeroResult ==
    [total_co2_kg            |-> R(0),
     total_ch4_kg            |-> R(0),
     total_n2o_kg            |-> R(0),
     total_co2_equivalent_kg |-> R(0),
     scope_3_emissions_kg    |-> R(0),
     shipment_count          |-> 0]

\* C30: calculate_supply_chain_emissions on an empty batch returns, with
\* either value of include_scope_3, the five totals 0 and shipment_count 0;
\* every call that returns reports the length of its batch as
\* shipment_count.
C30_EmptyBatch ==
    \A c \in FinishedBatchCalls :
        /\ c.shipments = <<>> => c.ret.status = "returned" /\ c.ret.result = ZeroResult
        /\ c.ret.status = "returned" => c.ret.result.shipment_count = Len(c.shipments)

\* the empty batch has returned under both flags
C30_Witness ==
    /\ shipments = <<>>
    /\ earlier # NotCalled
    /\ earlier.ret.status = "returned"
    /\ earlier.include_scope_3 = ~include_scope_3
    /\ batch_ret # NotCalled
    /\ batch_ret.status = "returned"
    /\ batch_ret.result.shipment_count = 0

\* every shipment of the batch carries the emission fields
AllEnriched == \A n \in DOMAIN etl.shipments : EmissionKeys \subseteq DOMAIN etl.shipments[n]

\* the calculation for the shipment that the loop is at fails
CalculationFails ==
    /\ etl.pc = "transform"
    /\ etl.i <= Len(etl.shipments)
    /\ EtlEmissions(etl.shipments[etl.i]).status = "raised"

\* C26: in run_etl_pipeline a failure of the calculation for a shipment
\* leaves the pipeline as the exception of that batch, and
\* ingest_daily_shipments is not invoked for the batch; it is invoked only
\* when every shipment of the batch is enriched; the issues that
\* validate_shipments returns remove no shipment and do not stop the
\* pipeline.
C26_HardFailure ==
    /\ [](etl.stage = "transform" => etl.pc \in {"raised", "idle"} /\ etl.ingest_calls = <<>>)
    /\ [](etl.ingest_calls # <<>>
          => /\ AllEnriched
             /\ etl.ingest_calls = <<etl.shipments>>
             /\ etl.returned = ListOf([n \in DOMAIN etl.shipments |-> n]))
    /\ [](\A n \in DOMAIN etl.history :
             /\ etl.history[n].stage = "transform"
                => etl.history[n].outcome = "failed" /\ etl.history[n].ingest_calls = 0
             /\ etl.history[n].outcome = "completed"
                => etl.history[n].stage = "none" /\ etl.history[n].ingest_calls = 1)
    /\ [][/\ CalculationFails
             => /\ etl'.pc = "raised"
                /\ etl'.stage = "transform"
                /\ etl'.error = EtlEmissions(etl.shipments[etl.i]).error
          /\ etl.pc = "raised"
             => /\ etl'.pc = "idle"
                /\ etl'.history = Append(etl.history,
                                         [outcome |-> "failed", stage |-> etl.stage,
                                          error |-> etl.error,
                                          ingest_calls |-> Len(etl.ingest_calls)])
          /\ (etl.pc = "validate" /\ validate_shipments(etl.shipments).status = "returned")
             => /\ etl'.pc = "transform"
                /\ etl'.shipments = etl.shipments
                /\ etl'.issues = validate_shipments(etl.shipments).result]_vars

\* a batch with a shipment that has an issue and no fault and a shipment
\* by train: the issue is recorded, the first shipment is enriched, the
\* calculation of the second has failed and nothing was ingested
C26_Witness ==
    /\ etl.pc = "raised"
    /\ etl.stage = "transform"
    /\ etl.error = "ValueError"
    /\ etl.shipments # <<>>
    /\ Len(etl.shipments) = 2
    /\ etl.shipments[2]["shipment_id"] = "train"
    /\ etl.issues # <<>>
    /\ etl.i = 2
    /\ etl.ingest_calls = <<>>
    /\ etl.history # <<>>
    /\ etl.history[1].outcome = "completed"

\* C28: when calculate_emissions_for_shipments raises at the shipment of
\* index k, the shipments before k in the caller's list carry the six
\* emission fields, the shipments from k on carry none of them and no list
\* is returned; when it returns, the list has the length and the order of
\* the input and every shipment carries co2_kg, ch4_kg, n2o_kg and
\* co2_equivalent_kg.
C28_PartialUpdate ==
    /\ (etl.pc = "raised" /\ etl.stage = "transform")
       => /\ \A n \in 1..(etl.i - 1) : EmissionKeys \subseteq DOMAIN etl.shipments[n]
          /\ \A n \in etl.i..Len(etl.shipments) :
                 EmissionKeys \cap DOMAIN etl.shipments[n] = {}
          /\ etl.returned = None
    /\ etl.returned # None
       => /\ Len(etl.returned.list) = Len(etl.shipments)
          /\ \A n \in DOMAIN etl.shipments :
                /\ etl.returned.list[n] = n
                /\ {"co2_kg", "ch4_kg", "n2o_kg", "co2_equivalent_kg"}
                       \subseteq DOMAIN etl.shipments[n]

\* the second shipment of a batch has no transport_mode key: the first one
\* is updated, the second is not, KeyError is raised
C28_Witness ==
    /\ etl.pc = "raised"
    /\ etl.stage = "transform"
    /\ etl.error = "KeyError"
    /\ etl.i = 2
    /\ Len(etl.shipments) = 2
    /\ "transport_mode" \notin DOMAIN etl.shipments[2]
    /\ "co2_kg" \in DOMAIN etl.shipments[1]
    /\ etl.returned = None

\* the factors that calculate_supply_chain_emissions computes for a record:
\* those of its optional keys
HonouredFactors(shipment) ==
    [operational_factor |->
         RMul(RInv(Get(shipment, "load_factor", Rat(8, 10))),
              Get(shipment, "fuel_efficiency", R(1))),
     weather_factor |->
         IF "weather_impact" \in DOMAIN shipment
         THEN calculate_combined_factor(shipment["weather_impact"])
         ELSE R(1)]

\* C29: every record that calculate_emissions_for_shipments has enriched
\* carries operational_factor 1.25 and weather_factor 1.0, whatever
\* load_factor, fuel_efficiency or weather_impact it has, while the call
\* that calculate_supply_chain_emissions makes for the same record uses
\* those keys: it fails on a load factor of zero and otherwise computes the
\* factors from them.
C29_OptionalKeysIgnored ==
    \A n \in DOMAIN etl.shipments :
        EmissionKeys \subseteq DOMAIN etl.shipments[n]
        => LET shipment == etl.shipments[n]
               honoured == ShipmentEmissions(shipment)
           IN  /\ shipment["operational_factor"] = Rat(125, 100)
               /\ shipment["weather_factor"] = R(1)
               /\ IF Get(shipment, "load_factor", Rat(8, 10)) = R(0)
                  THEN honoured.status = "raised"
                  ELSE /\ honoured.status = "returned"
                       /\ honoured.locals.operational_factor =
                              HonouredFactors(shipment).operational_factor
                       /\ honoured.locals.weather_factor =
                              HonouredFactors(shipment).weather_factor

\* a record with a load factor of 0.4, a fuel efficiency of 1.5 and hot
\* weather is enriched with 1.25 and 1.0 where the batch calculation uses
\* 3.75 and 1.2; the one after it has a load factor of zero
C29_Witness ==
    /\ etl.pc = "ingest"
    /\ Len(etl.shipments) = 2
    /\ etl.shipments[1]["shipment_id"] = "loaded"
    /\ etl.shipments[1]["load_factor"] = Rat(4, 10)
    /\ etl.shipments[1]["operational_factor"] = Rat(125, 100)
    /\ ShipmentEmissions(etl.shipments[1]).result.operational_factor = Rat(375, 100)
    /\ ShipmentEmissions(etl.shipments[1]).result.weather_factor = Rat(12, 10)
    /\ etl.shipments[2]["shipment_id"] = "zeroload"
    /\ etl.shipments[2]["weather_factor"] = R(1)

=============================================================================
